---- MODULE Spec2Model ----
(***************************************************************************)
(* Spelling mini-games of spellingfox: four React components that share    *)
(* the session queue but differ in how a candidate letter is produced.     *)
(*   "grid"  : src/components/SpellingModal.tsx          (snake on a grid) *)
(*   "typed" : src/components/SpellingBeeModal.tsx:13    (typed letters)   *)
(*   "tile"  : src/components/SpellingBeeModal.tsx:329   (letter tiles)    *)
(*   "voice" : src/components/FlashcardQuest.tsx:2234    (spoken letters)  *)
(*                                                                         *)
(* React semantics used throughout: a click or key press is dispatched to  *)
(* the handlers of the last committed render and the updates it makes are  *)
(* committed (render + effects) before the next event or timer callback,   *)
(* so such a handler and the render that follows it form one action.       *)
(* Updates made by speech-recognition callbacks and the collection updater *)
(* of the grid game are committed by a later render; further events of the *)
(* same source can be delivered before that render.                        *)
(* State that only drives the display (isShaking, isSpeaking) is left out. *)
(* Updates of the state of an unmounted component are dropped by React;    *)
(* its refs, timers and recognition sessions live on.                      *)
(*                                                                         *)
(* The second part models the repository calls of                          *)
(* src/lib/supabaseQueries.ts that write the daily quests and the points   *)
(* of a student.  Every await of a call is one request to the database;    *)
(* requests of concurrent calls interleave.  The games and the repository  *)
(* are independent, each has its own specification.                        *)
(*                                                                         *)
(* The third part models the App component, src/App.tsx (the daily words   *)
(* shown to a student, the optimistic toggle of the tutor, the handling of *)
(* a finished session), the fourth the repository and gateway functions    *)
(* that are applied to their arguments one call at a time.                 *)
(***************************************************************************)
EXTENDS Integers, Sequences, FiniteSets, TLC

----------------------------------------------------------------------------
(* Bounds of the model *)

MaxWords == 2       \* longest input word list
MaxAdvances == 3    \* attempts that may be ended in one session
MaxRejects == 2     \* rejected candidates counted in one session
NumSeeds == 2       \* outcomes of Math.random enumerated per spawn
ArenaRadius == 2    \* the snake is steered within this distance of its start
MaxSessions == 1    \* speech-recognition sessions running at once
MaxTimers == 1      \* startListening timers pending at once
MaxResults == 1     \* results carried by one recognition event
MaxAlternatives == 1   \* alternatives of one recognition result

----------------------------------------------------------------------------
(* Characters and words.  A word is the sequence of its characters. *)

Lowers == <<"a","b","c","d","e","f","g","h","i","j","k","l","m",
            "n","o","p","q","r","s","t","u","v","w","x","y","z">>
Uppers == <<"A","B","C","D","E","F","G","H","I","J","K","L","M",
            "N","O","P","Q","R","S","T","U","V","W","X","Y","Z">>

Range(s) == { s[i] : i \in DOMAIN s }

IsUpperAZ(c) == c \in Range(Uppers)
IsLowerAZ(c) == c \in Range(Lowers)

ToUpperChar(c) ==
  IF IsLowerAZ(c) THEN Uppers[CHOOSE i \in DOMAIN Lowers : Lowers[i] = c] ELSE c

ToLowerChar(c) ==
  IF IsUpperAZ(c) THEN Lowers[CHOOSE i \in DOMAIN Uppers : Uppers[i] = c] ELSE c

toUpperCase(s) == [i \in DOMAIN s |-> ToUpperChar(s[i])]
toLowerCase(s) == [i \in DOMAIN s |-> ToLowerChar(s[i])]

Max(a, b) == IF a >= b THEN a ELSE b

(* The word bank the input lists are drawn from. *)
Dictionary ==
  << [id |-> 1, word |-> <<"C","A","T">>],
     [id |-> 2, word |-> <<"a","t">>] >>

IsInjective(s) == \A i, j \in DOMAIN s : s[i] = s[j] => i = j

WordLists ==
  { l \in UNION { [1..n -> Range(Dictionary)] : n \in 0..MaxWords } : IsInjective(l) }

(* src/components/SpellingModal.tsx:21-23 *)
GRID_SIZE == 15
INITIAL_SNAKE == << [x |-> 7, y |-> 7] >>
DISTRACTOR_COUNT == 4

----------------------------------------------------------------------------
VARIABLES
  variant, wordEntries,          \* which component, and its wordEntries prop
  speechRecognitionAPI,          \* the browser has (webkit)SpeechRecognition
  modal, crashed,                \* the parent shows the modal; an exception
                                 \* left the component
  queue, hadMistakeOnCurrentWord, advanceCounter, score, gameState,
  feedback, wordResults,
  typedLetters,                  \* typed
  placedLetters, tiles,          \* tile
  snake, activeLetters, collectedLetters,        \* grid: state
  isProcessingLetter, pendingCollect,            \* grid: latch, queued updater
  spokenLetters, isListening, showDidntCatch,    \* voice: state
  recognitionRef, isProcessingRef, capturedThisSessionRef, stateRef,  \* refs
  recLive, listenTimers,         \* voice: sessions and timers running
  finishCalls,                   \* the invocations of onFinish, in order
  nAccepted, nRejected, nCompleted, nAbsorbed,   \* history counters
  attempts, curRejects,          \* ended attempts; rejects of the running one
  lastInput,                     \* what the last input event judged
  questions, loading, currentIndex, bubbles,     \* quiz: state
  pops,                          \* quiz: the pops that were judged
  quests, progress,              \* tables vocab_daily_quests, vocab_student_progress
  nextId,                        \* the id the next inserted quest row gets
  studentRows,                   \* table vocab_students
  inFlight,                      \* the repository call each caller is in
  clock, log,                    \* the calls made so far, with their begin and end
  faultBudget,                   \* requests that may still fail in transport
  appRole, studentEnteredName, loadingStudent, currentStudentId,  \* App state
  dailyWordIds, appPoints,       \* state.dailyWordIds, state.points
  refreshes,                     \* daily quest requests not answered yet
  students, selectedStudentId,   \* tutor view: dailyWordIds of each student
  toggles,                       \* toggleDailyWord calls awaiting the remote toggle
  saves,                         \* onCompleteExercise calls awaiting the remote add
  ledger, sessions,              \* vocab_practice_records; sessions finished
  wordCount, pageFrom, fetched, fetchPc,   \* getAllWords: table size, from, all
  libInput, libOutput            \* a function applied to arguments, its outcome

propVars  == <<variant, wordEntries, speechRecognitionAPI>>
coreVars  == <<queue, hadMistakeOnCurrentWord, advanceCounter, score, gameState,
               feedback, wordResults>>
typedVars == <<typedLetters>>
tileVars  == <<placedLetters, tiles>>
gridVars  == <<snake, activeLetters, collectedLetters, isProcessingLetter,
               pendingCollect>>
voiceVars == <<spokenLetters, isListening, showDidntCatch, recognitionRef,
               isProcessingRef, capturedThisSessionRef, stateRef, recLive,
               listenTimers>>
countVars == <<nAccepted, nRejected, nCompleted, nAbsorbed>>
histVars  == <<finishCalls, attempts, curRejects, lastInput>>
quizVars  == <<questions, loading, currentIndex, bubbles, pops>>

storeVars == <<quests, progress, nextId, studentRows, inFlight, clock, log, faultBudget>>

gameVars == <<propVars, modal, crashed, coreVars, typedVars, tileVars, gridVars, voiceVars,
              countVars, histVars, quizVars>>

appVars == <<appRole, studentEnteredName, loadingStudent, currentStudentId,
             dailyWordIds, appPoints, refreshes, students, selectedStudentId,
             toggles, saves, ledger, sessions>>

libVars == <<wordCount, pageFrom, fetched, fetchPc, libInput, libOutput>>

(* What the games, and what the repository calls, leave alone. *)
offGame == <<storeVars, appVars, libVars, quizVars>>
offStore == <<gameVars, appVars, libVars>>

vars == <<gameVars, storeVars, appVars, libVars>>

Variants == {"grid", "typed", "tile", "voice"}

----------------------------------------------------------------------------
(* Derived values of a render *)

currentWord == queue[1]                     \* only used where queue # <<>>
HasCurrentWord == queue # <<>>

TargetLettersOf(q) == IF q = <<>> THEN <<>> ELSE toUpperCase(q[1].word)
targetLetters == TargetLettersOf(queue)

(* Variants of the definitions that follow them, each with one plausible    *)
(* slip, are used to show that the properties depend on the definitions.   *)
NextQueueKeepsHead(q, hadMistake) ==
  IF hadMistake THEN q ELSE Tail(q)

(* Words answered with a mistake go to the back of the queue. *)
NextQueue(q, hadMistake) ==
  IF hadMistake THEN Append(Tail(q), Head(q)) ELSE Tail(q)

SessionOverEarly(nextQueue) == Len(nextQueue) <= 1

(* if (nextQueue.length === 0) *)
SessionOver(nextQueue) == Len(nextQueue) = 0

WordResultAlwaysCorrect(w, hadMistake) ==
  [wordId |-> w.id, word |-> w.word, correct |-> TRUE]

(* { wordId: currentWord.id, word: currentWord.word, correct: !hadMistake } *)
WordResult(w, hadMistake) ==
  [wordId |-> w.id, word |-> w.word, correct |-> ~hadMistake]

DeductBelowZero(s) == s - 10

(* Math.max(0, s - 10) *)
Deduct(s) == Max(0, s - 10)

FillsLastSlotEarly(n, target) == n >= Len(target) - 1

(* next.length === targetLetters.length: n letters fill the word. *)
FillsLastSlot(n, target) == n = Len(target)

InvokeOnFinishTwice(calls, call) == Append(Append(calls, call), call)

(* onFinish(score, nextResults): one more invocation of the callback. *)
InvokeOnFinish(calls, call) == Append(calls, call)

(* StudentDashboard: onFinish and onClose both hide the modal. *)
ModalAfterFinish == "closed"
ModalAfterClose == "closed"

NoInput == [judged |-> <<>>, dropped |-> FALSE]

Judgement(slot, filled, expected, letter) ==
  [slot |-> slot, filled |-> filled, expected |-> expected, letter |-> letter,
   accepted |-> (letter = expected)]

----------------------------------------------------------------------------
(* QuizModal is not mounted. *)
QuizParked ==
  /\ questions = <<>>
  /\ loading = TRUE
  /\ currentIndex = 0
  /\ bubbles = {}
  /\ pops = <<>>

(* The state after construction, for a wordEntries prop among lists. *)
GameStart(lists) ==
  /\ variant \in Variants
  /\ wordEntries \in lists
  /\ speechRecognitionAPI \in IF variant = "voice" THEN BOOLEAN ELSE {TRUE}
  /\ QuizParked
  /\ modal = "unopened"
  /\ crashed = FALSE
  /\ queue = wordEntries
  /\ hadMistakeOnCurrentWord = FALSE
  /\ advanceCounter = 0
  /\ score = 0
  /\ gameState = IF variant \in {"typed", "voice"} /\ Len(wordEntries) > 0
                 THEN "preview" ELSE "starting"
  /\ feedback = <<>>
  /\ wordResults = <<>>
  /\ typedLetters = <<>>
  /\ placedLetters = <<>>
  /\ tiles = <<>>
  /\ snake = INITIAL_SNAKE
  /\ activeLetters = <<>>
  /\ collectedLetters = <<>>
  /\ isProcessingLetter = FALSE
  /\ pendingCollect = <<>>
  /\ spokenLetters = <<>>
  /\ isListening = FALSE
  /\ showDidntCatch = FALSE
  /\ recognitionRef = FALSE
  /\ isProcessingRef = FALSE
  /\ capturedThisSessionRef = FALSE
  /\ stateRef = [targetLetters |-> <<>>, spokenLength |-> 0]
  /\ recLive = 0
  /\ listenTimers = 0
  /\ finishCalls = <<>>
  /\ nAccepted = 0 /\ nRejected = 0 /\ nCompleted = 0 /\ nAbsorbed = 0
  /\ attempts = <<>>
  /\ curRejects = 0
  /\ lastInput = NoInput

GameInit == GameStart(WordLists)

(* No repository call is made while a game is played. *)
StoreParked ==
  /\ quests = {}
  /\ progress = {}
  /\ studentRows = {}
  /\ nextId = 1
  /\ inFlight = <<>>
  /\ clock = 0
  /\ log = <<>>
  /\ faultBudget = 0

(* The App component before it is mounted. *)
AppParked ==
  /\ appRole = "student"
  /\ studentEnteredName = FALSE
  /\ loadingStudent = "none"
  /\ currentStudentId = "none"
  /\ dailyWordIds = <<>>
  /\ appPoints = 0
  /\ refreshes = <<>>
  /\ students = <<>>
  /\ selectedStudentId = "none"
  /\ toggles = <<>>
  /\ saves = <<>>
  /\ ledger = <<>>
  /\ sessions = <<>>

(* No repository or gateway function is being applied. *)
LibParked ==
  /\ wordCount = 0
  /\ pageFrom = 0
  /\ fetched = <<>>
  /\ fetchPc = "idle"
  /\ libInput = <<>>
  /\ libOutput = <<>>

Init == GameInit /\ StoreParked /\ AppParked /\ LibParked

shuffleLosingOne(s) ==
  { [i \in 1..(Len(s) - 1) |-> s[p[i]]] : p \in Permutations(DOMAIN s) }

(* All orders a Fisher-Yates shuffle of s can produce. *)
shuffle(s) ==
  { [i \in DOMAIN s |-> s[p[i]]] : p \in Permutations(DOMAIN s) }

Live == modal = "shown" /\ ~crashed

(* Voice: every render stores the current letters and progress in stateRef. *)
RenderedRef(q, spoken) ==
  [targetLetters |-> TargetLettersOf(q), spokenLength |-> Len(spoken)]

(* Voice: a render is scheduled and has not run, stateRef is behind the state. *)
renderPending == variant = "voice" /\ stateRef # RenderedRef(queue, spokenLetters)

(* Every scheduled render has run. *)
Committed == pendingCollect = <<>> /\ ~renderPending

----------------------------------------------------------------------------
(* Mounting: the first render and the effects that follow it.  Every       *)
(* variant runs resetLevel from its [advanceCounter, resetLevel] effect.   *)

TypedResetLevel ==
  /\ typedLetters' = <<>>
  /\ gameState' = "preview"

TileResetLevel ==
  /\ placedLetters' = <<>>
  /\ tiles' \in shuffle(targetLetters')
  /\ hadMistakeOnCurrentWord' = FALSE
  /\ gameState' = "preview"

MountTyped ==
  /\ variant = "typed" /\ modal = "unopened"
  /\ modal' = "shown"
  /\ IF HasCurrentWord
       THEN TypedResetLevel
       ELSE UNCHANGED <<typedLetters, gameState>>
  /\ UNCHANGED <<offGame, propVars, crashed, queue, hadMistakeOnCurrentWord, advanceCounter,
                 score, feedback, wordResults, tileVars, gridVars, voiceVars, countVars, histVars>>

MountTile ==
  /\ variant = "tile" /\ modal = "unopened"
  /\ modal' = "shown"
  /\ queue' = queue
  /\ IF HasCurrentWord
       THEN TileResetLevel
       ELSE UNCHANGED <<placedLetters, tiles, hadMistakeOnCurrentWord, gameState>>
  /\ UNCHANGED <<offGame, propVars, crashed, advanceCounter, score, feedback, wordResults,
                 typedVars, gridVars, voiceVars, countVars, histVars>>

(* The close button calls the parent's onClose; unmounting runs the        *)
(* cleanup of the effects (the voice variant's stopListening).             *)
Close ==
  /\ Live /\ Committed
  /\ modal' = ModalAfterClose
  /\ recognitionRef' = FALSE
  /\ lastInput' = NoInput
  /\ UNCHANGED <<offGame, propVars, crashed, coreVars, typedVars, tileVars, gridVars, spokenLetters,
                 isListening, showDidntCatch, isProcessingRef,
                 capturedThisSessionRef, stateRef, recLive, listenTimers,  countVars, finishCalls,
                 attempts, curRejects>>

----------------------------------------------------------------------------
(* Typed-letter variant: src/components/SpellingBeeModal.tsx:13-130 *)

(* Keys the player may press, as the characters of e.key. *)
Keys == { <<"c">>, <<"a">>, <<"T">>, <<"1">>, <<"-">>, <<"E","n","t","e","r">> }
KeyTargets == {"input", "elsewhere"}

TypedStartPlaying ==
  /\ variant = "typed" /\ Live /\ HasCurrentWord /\ gameState = "preview"
  /\ gameState' = "typing"
  /\ lastInput' = NoInput
  /\ UNCHANGED <<offGame, propVars, modal, crashed, queue, hadMistakeOnCurrentWord,
                 advanceCounter, score, feedback, wordResults, typedVars, tileVars, gridVars,
                 voiceVars, countVars, finishCalls, attempts, curRejects>>

(* The state handleKeyDown reads and writes, as one record. *)
TypedState ==
  [gameState |-> gameState, typedLetters |-> typedLetters, score |-> score,
   hadMistake |-> hadMistakeOnCurrentWord, nAccepted |-> nAccepted,
   nRejected |-> nRejected, nCompleted |-> nCompleted, nAbsorbed |-> nAbsorbed,
   curRejects |-> curRejects, judged |-> <<>>]

(* handleKeyDown(e): view is the render the callback closes over, s the    *)
(* state its updaters are applied to.                                      *)
handleKeyDown(view, s, eKey) ==
  LET target == targetLetters
      key == toUpperCase(eKey)
  IN
  IF view.gameState # "typing" \/ ~HasCurrentWord THEN s
  ELSE IF Len(view.typedLetters) >= Len(target) THEN s
  ELSE IF Len(key) # 1 \/ ~IsUpperAZ(key[1]) THEN s
  ELSE
    LET expected == target[Len(view.typedLetters) + 1]
        correct == key[1] = expected
        next == Append(s.typedLetters, [letter |-> key[1], correct |-> correct])
        full == FillsLastSlot(Len(next), target)
        bonus == full /\ \A i \in DOMAIN next : next[i].correct
        afterBonus == IF bonus THEN s.score + 200 ELSE s.score
    IN [s EXCEPT
          !.typedLetters = next,
          !.gameState = IF full THEN "feedback" ELSE @,
          !.score = IF correct THEN afterBonus + 10 ELSE Deduct(afterBonus),
          !.hadMistake = IF correct THEN @ ELSE TRUE,
          !.nAccepted = IF correct THEN @ + 1 ELSE @,
          !.nRejected = IF correct THEN @ ELSE @ + 1,
          !.nAbsorbed = IF ~correct /\ afterBonus < 10 THEN @ + 1 ELSE @,
          !.nCompleted = IF full /\ correct THEN @ + 1 ELSE @,
          !.curRejects = IF correct THEN @ ELSE @ + 1,
          !.judged = Append(@, Judgement(Len(view.typedLetters) + 1,
                                         Len(s.typedLetters), expected, key[1]))]

(* The hidden input's onKeyDown sees only events targeted at the input. *)
InputHandles(target) == target = "input"

WindowHandlesAll(target) == TRUE

(* The window listener returns early for events targeted at the input. *)
WindowHandles(target) == ~(target = "input")

TypedKeyDown ==
  /\ variant = "typed" /\ Live /\ HasCurrentWord /\ gameState = "typing"
  /\ \E eKey \in Keys, target \in KeyTargets :
       LET view == TypedState
           s1 == IF InputHandles(target) THEN handleKeyDown(view, view, eKey) ELSE view
           s2 == IF WindowHandles(target) THEN handleKeyDown(view, s1, eKey) ELSE s1
       IN /\ s2.nRejected <= MaxRejects
          /\ gameState' = s2.gameState
          /\ typedLetters' = s2.typedLetters
          /\ score' = s2.score
          /\ hadMistakeOnCurrentWord' = s2.hadMistake
          /\ nAccepted' = s2.nAccepted
          /\ nRejected' = s2.nRejected
          /\ nCompleted' = s2.nCompleted
          /\ nAbsorbed' = s2.nAbsorbed
          /\ curRejects' = s2.curRejects
          /\ lastInput' = [judged |-> s2.judged, dropped |-> FALSE]
  /\ UNCHANGED <<offGame, propVars, modal, crashed, queue, advanceCounter, feedback,
                 wordResults, tileVars, gridVars, voiceVars, finishCalls, attempts>>

(* nextWord: the button of the feedback screen. *)
TypedNextWord ==
  /\ variant = "typed" /\ Live /\ HasCurrentWord /\ gameState = "feedback"
  /\ advanceCounter < MaxAdvances
  /\ LET hadMistake == hadMistakeOnCurrentWord
         nextResults == Append(wordResults, WordResult(currentWord, hadMistake))
         nextQueue == NextQueue(queue, hadMistake)
     IN /\ wordResults' = nextResults
        /\ queue' = nextQueue
        /\ hadMistakeOnCurrentWord' = FALSE
        /\ advanceCounter' = advanceCounter + 1
        /\ attempts' = Append(attempts, [wordId |-> currentWord.id,
                                         rejects |-> curRejects])
        /\ curRejects' = 0
        /\ IF SessionOver(nextQueue)
             THEN /\ finishCalls' = InvokeOnFinish(finishCalls,
                        [score |-> score, results |-> nextResults, hasResults |-> TRUE])
                  /\ modal' = ModalAfterFinish
                  /\ UNCHANGED <<typedLetters, gameState>>
             ELSE /\ TypedResetLevel
                  /\ UNCHANGED <<finishCalls, modal>>
  /\ lastInput' = NoInput
  /\ UNCHANGED <<offGame, propVars, crashed, score, feedback, tileVars, gridVars, voiceVars,
                 countVars>>

----------------------------------------------------------------------------
(* Tile-order variant: src/components/SpellingBeeModal.tsx:329-443 *)

laggingSlotIndex == Max(0, Len(placedLetters) - 1)

(* const currentSlotIndex = placedLetters.length *)
currentSlotIndex == Len(placedLetters)

showWrongNever == FALSE

(* The last placed letter is wrong: it is shown in red, and the effect of  *)
(* lines 389-393 holds a 1400 ms timer for advanceToNextWord.              *)
showWrongAndAdvance ==
  Len(placedLetters) > 0 /\ ~placedLetters[Len(placedLetters)].correct

RemoveAt(s, i) == [j \in 1..(Len(s) - 1) |-> IF j < i THEN s[j] ELSE s[j + 1]]

TileStartPlaying ==
  /\ variant = "tile" /\ Live /\ HasCurrentWord /\ gameState = "preview"
  /\ gameState' = "playing"
  /\ lastInput' = NoInput
  /\ UNCHANGED <<offGame, propVars, modal, crashed, queue, hadMistakeOnCurrentWord,
                 advanceCounter, score, feedback, wordResults, typedVars, tileVars, gridVars,
                 voiceVars, countVars, finishCalls, attempts, curRejects>>

(* What the Web Audio calls of playSuccessSound may do. *)
AudioOutcomes == {"played", "failed"}

playSuccessSoundUncaught(audio) ==
  IF audio = "failed" THEN "thrown" ELSE "returned"

(* playSuccessSound(): try { ... } catch (_) {} returns whatever happens. *)
playSuccessSound(audio) == "returned"

(* handleTileTap(tileId, letter) for the i-th tile on screen. *)
TileTap ==
  /\ variant = "tile" /\ Live /\ HasCurrentWord /\ gameState = "playing"
  /\ \E i \in DOMAIN tiles, audio \in AudioOutcomes :
       IF currentSlotIndex >= Len(targetLetters) \/ showWrongAndAdvance
       THEN /\ lastInput' = [judged |-> <<>>, dropped |-> TRUE]
            /\ UNCHANGED <<crashed, placedLetters, tiles, score, gameState, feedback,
                           hadMistakeOnCurrentWord, countVars, curRejects>>
       ELSE IF tiles[i] = targetLetters[currentSlotIndex + 1]
               /\ playSuccessSound(audio) = "thrown"
       THEN /\ crashed' = TRUE
            /\ lastInput' = [judged |-> <<>>, dropped |-> TRUE]
            /\ UNCHANGED <<placedLetters, tiles, score, gameState, feedback,
                           hadMistakeOnCurrentWord, countVars, curRejects>>
       ELSE
         LET letter == tiles[i]
             expected == targetLetters[currentSlotIndex + 1]
             correct == letter = expected
             last == currentSlotIndex + 1 >= Len(targetLetters)
         IN
         /\ crashed' = crashed
         /\ lastInput' = [judged |-> <<Judgement(currentSlotIndex + 1,
                                Len(placedLetters), expected, letter)>>,
                          dropped |-> FALSE]
         /\ placedLetters' = Append(placedLetters,
                                    [letter |-> letter, correct |-> correct])
         /\ IF correct
              THEN /\ tiles' = RemoveAt(tiles, i)
                   /\ score' = IF last THEN score + 10 + 200 ELSE score + 10
                   /\ gameState' = IF last THEN "feedback" ELSE gameState
                   /\ feedback' = IF last
                                  THEN <<[correct |-> TRUE, word |-> currentWord.word]>>
                                  ELSE feedback
                   /\ nAccepted' = nAccepted + 1
                   /\ nCompleted' = IF last THEN nCompleted + 1 ELSE nCompleted
                   /\ UNCHANGED <<hadMistakeOnCurrentWord, nRejected, nAbsorbed,
                                  curRejects>>
              ELSE /\ nRejected < MaxRejects
                   /\ hadMistakeOnCurrentWord' = TRUE
                   /\ score' = Deduct(score)
                   /\ nRejected' = nRejected + 1
                   /\ nAbsorbed' = IF score < 10 THEN nAbsorbed + 1 ELSE nAbsorbed
                   /\ curRejects' = curRejects + 1
                   /\ UNCHANGED <<tiles, gameState, feedback, nAccepted, nCompleted>>
  /\ UNCHANGED <<offGame, propVars, modal, queue, advanceCounter, wordResults,
                 typedVars, gridVars, voiceVars, finishCalls, attempts>>

(* advanceToNextWord, followed by the render it causes and, when a word is *)
(* left, by resetLevel from the [advanceCounter, resetLevel] effect.       *)
advanceToNextWord ==
  /\ HasCurrentWord
  /\ advanceCounter < MaxAdvances
  /\ LET nextResults == Append(wordResults,
                               WordResult(currentWord, hadMistakeOnCurrentWord))
         nextQueue == NextQueue(queue, hadMistakeOnCurrentWord)
     IN /\ wordResults' = nextResults
        /\ queue' = nextQueue
        /\ feedback' = <<>>
        /\ advanceCounter' = advanceCounter + 1
        /\ attempts' = Append(attempts, [wordId |-> currentWord.id,
                                         rejects |-> curRejects])
        /\ curRejects' = 0
        /\ IF SessionOver(nextQueue)
             THEN /\ finishCalls' = InvokeOnFinish(finishCalls,
                        [score |-> score, results |-> nextResults, hasResults |-> TRUE])
                  /\ modal' = ModalAfterFinish
                  /\ hadMistakeOnCurrentWord' = FALSE
                  /\ UNCHANGED <<placedLetters, tiles, gameState>>
             ELSE /\ TileResetLevel
                  /\ UNCHANGED <<finishCalls, modal>>
  /\ lastInput' = NoInput
  /\ UNCHANGED <<offGame, propVars, crashed, score, typedVars, gridVars, voiceVars, countVars>>

(* The button of the feedback screen: nextWord. *)
TileNextWord ==
  /\ variant = "tile" /\ Live /\ HasCurrentWord
  /\ gameState = "feedback" /\ feedback # <<>>
  /\ advanceToNextWord

(* The 1400 ms timer of the wrong-tile effect fires. *)
TileWrongTimer ==
  /\ variant = "tile" /\ Live
  /\ showWrongAndAdvance
  /\ advanceToNextWord

----------------------------------------------------------------------------
(* Voice variant: src/components/FlashcardQuest.tsx:2162-2389 *)

Null == "null"

LETTER_PRONUNCIATIONS ==
  { <<<<"a">>, "A">>, <<<<"a","y","e">>, "A">>, <<<<"a","y">>, "A">>,
    <<<<"a","a","h">>, "A">>, <<<<"b">>, "B">>, <<<<"b","e","e">>, "B">>,
    <<<<"b","e">>, "B">>, <<<<"b","e","a">>, "B">>, <<<<"c">>, "C">>,
    <<<<"s","e","e">>, "C">>, <<<<"c","e","e">>, "C">>, <<<<"s","e","a">>, "C">>,
    <<<<"d">>, "D">>, <<<<"d","e","e">>, "D">>, <<<<"d","e">>, "D">>,
    <<<<"d","a">>, "D">>, <<<<"e">>, "E">>, <<<<"e","e">>, "E">>,
    <<<<"e","h">>, "E">>, <<<<"e","a">>, "E">>, <<<<"f">>, "F">>,
    <<<<"e","f","f">>, "F">>, <<<<"i","f">>, "F">>, <<<<"g">>, "G">>,
    <<<<"g","e","e">>, "G">>, <<<<"j","i">>, "G">>, <<<<"h">>, "H">>,
    <<<<"a","i","t","c","h">>, "H">>, <<<<"h","a","y","c","h">>, "H">>, <<<<"i">>, "I">>,
    <<<<"e","y","e">>, "I">>, <<<<"j">>, "J">>, <<<<"j","a","y">>, "J">>,
    <<<<"j","a">>, "J">>, <<<<"k">>, "K">>, <<<<"k","a","y">>, "K">>,
    <<<<"o","k">>, "K">>, <<<<"l">>, "L">>, <<<<"e","l">>, "L">>,
    <<<<"e","l","l">>, "L">>, <<<<"a","l">>, "L">>, <<<<"m">>, "M">>,
    <<<<"e","m">>, "M">>, <<<<"m","e">>, "M">>, <<<<"a","m">>, "M">>,
    <<<<"n">>, "N">>, <<<<"e","n">>, "N">>, <<<<"a","n">>, "N">>,
    <<<<"i","n">>, "N">>, <<<<"o">>, "O">>, <<<<"o","h">>, "O">>,
    <<<<"o","w">>, "O">>, <<<<"p">>, "P">>, <<<<"p","e","e">>, "P">>,
    <<<<"p","e","a">>, "P">>, <<<<"p","a">>, "P">>, <<<<"q">>, "Q">>,
    <<<<"c","u","e">>, "Q">>, <<<<"q","u","e","u","e">>, "Q">>, <<<<"k","e","w">>, "Q">>,
    <<<<"r">>, "R">>, <<<<"a","r">>, "R">>, <<<<"a","h">>, "R">>,
    <<<<"a","r","e">>, "R">>, <<<<"o","r">>, "R">>, <<<<"s">>, "S">>,
    <<<<"e","s","s">>, "S">>, <<<<"e","s">>, "S">>, <<<<"i","s">>, "S">>,
    <<<<"a","s">>, "S">>, <<<<"t">>, "T">>, <<<<"t","e","e">>, "T">>,
    <<<<"t","e","a">>, "T">>, <<<<"t","h","e">>, "T">>, <<<<"t","a">>, "T">>,
    <<<<"u">>, "U">>, <<<<"y","o","u">>, "U">>, <<<<"y","e","w">>, "U">>,
    <<<<"y","o","o">>, "U">>, <<<<"v">>, "V">>, <<<<"v","e","e">>, "V">>,
    <<<<"v","e">>, "V">>, <<<<"w">>, "W">>, <<<<"d","o","u","b","l","e">>, "W">>,
    <<<<"d","o","u","b","l","e","y","o","u">>, "W">>, <<<<"d","u","b","y","a">>, "W">>, <<<<"d","o","u","b","l","e","u">>, "W">>,
    <<<<"x">>, "X">>, <<<<"e","x">>, "X">>, <<<<"a","x">>, "X">>,
    <<<<"y">>, "Y">>, <<<<"w","h","y">>, "Y">>, <<<<"w","y","e">>, "Y">>,
    <<<<"w","y">>, "Y">>, <<<<"z">>, "Z">>, <<<<"z","e","d">>, "Z">>,
    <<<<"z","e","e">>, "Z">>, <<<<"z","e">>, "Z">> }

IsSpace(c) == c = " "

RECURSIVE TrimLeft(_)
TrimLeft(s) ==
  IF s # <<>> /\ IsSpace(Head(s)) THEN TrimLeft(Tail(s)) ELSE s

RECURSIVE TrimRight(_)
TrimRight(s) ==
  IF s # <<>> /\ IsSpace(s[Len(s)]) THEN TrimRight(SubSeq(s, 1, Len(s) - 1)) ELSE s

trim(s) == TrimRight(TrimLeft(s))

(* replace(/\s+/g, ' ') *)
RECURSIVE CollapseSpaces(_)
CollapseSpaces(s) ==
  IF s = <<>> THEN <<>>
  ELSE IF IsSpace(Head(s))
       THEN <<" ">> \o CollapseSpaces(TrimLeft(s))
       ELSE <<Head(s)>> \o CollapseSpaces(Tail(s))

(* replace(/\s/g, '') *)
RemoveSpaces(s) == SelectSeq(s, LAMBDA c : ~IsSpace(c))

(* The table is an object literal: a key it does not have is looked up in *)
(* Object.prototype.  Of the keys found there only 'constructor' is in    *)
(* lower case letters; its value is the function Object, which is truthy. *)
InheritedKeys == { <<"c","o","n","s","t","r","u","c","t","o","r">> }
ObjectFunction == "function Object"

PronouncedOwn(w) ==
  IF \E e \in LETTER_PRONUNCIATIONS : e[1] = w
  THEN (CHOOSE e \in LETTER_PRONUNCIATIONS : e[1] = w)[2]
  ELSE Null

(* LETTER_PRONUNCIATIONS[w] *)
Pronounced(w) ==
  IF \E e \in LETTER_PRONUNCIATIONS : e[1] = w
  THEN (CHOOSE e \in LETTER_PRONUNCIATIONS : e[1] = w)[2]
  ELSE IF w \in InheritedKeys THEN ObjectFunction
  ELSE Null

(* t = transcript.trim().toLowerCase().replace(/\s+/g, ' ') *)
Normalised(transcript) == CollapseSpaces(toLowerCase(trim(transcript)))

(* a || b for letters: LETTER_PRONUNCIATIONS[word] || LETTER_PRONUNCIATIONS[t] *)
Coalesce(a, b) == IF a # Null THEN a ELSE b

LetterOfNormalised(t, letter) ==
  IF t = <<>> THEN Null
  ELSE IF Len(t) = 1 /\ IsLowerAZ(t[1]) THEN ToUpperChar(t[1])
  ELSE IF letter # Null THEN letter
  ELSE IF IsLowerAZ(t[1]) THEN ToUpperChar(t[1])
  ELSE Null

LookupNormalised(t) ==
  LetterOfNormalised(t, Coalesce(Pronounced(RemoveSpaces(t)), Pronounced(t)))

transcriptToLetter(transcript) == LookupNormalised(Normalised(transcript))

(* The expected letter if an alternative gives it, else the first          *)
(* alternative that gives a letter.                                        *)
PickAmong(lettersOf, expectedLetter) ==
  LET valid == { i \in DOMAIN lettersOf : lettersOf[i] # Null }
  IN
  IF \E i \in valid : lettersOf[i] = expectedLetter THEN expectedLetter
  ELSE IF valid = {} THEN Null
  ELSE lettersOf[CHOOSE i \in valid : \A j \in valid : i <= j]

pickLetterFromResult(alternatives, expectedLetter) ==
  PickAmong([i \in DOMAIN alternatives |-> transcriptToLetter(alternatives[i])],
            expectedLetter)

(* The loop of onresult: the latest final result that gives a letter. *)
LatestGiven(picked) ==
  LET giving == { i \in DOMAIN picked : picked[i] # Null }
  IN
  IF giving = {} THEN Null
  ELSE picked[CHOOSE i \in giving : \A j \in giving : j <= i]

letterOfEvent(results, expected) ==
  LatestGiven([i \in DOMAIN results |->
                 IF results[i].isFinal
                 THEN pickLetterFromResult(results[i].alternatives, expected)
                 ELSE Null])

(* What the recogniser may hear. *)
Transcripts == { <<"a">>, <<"T","e","a">>, <<" ","s","e","e">>, <<"4">> }

AlternativeLists == UNION { [1..n -> Transcripts] : n \in 1..MaxAlternatives }

RecognitionResults ==
  { [isFinal |-> f, alternatives |-> a] : f \in BOOLEAN, a \in AlternativeLists }

RecognitionEvents == UNION { [1..n -> RecognitionResults] : n \in 1..MaxResults }

(* The letters a word of the word bank can expect. *)
TargetAlphabet ==
  UNION { Range(toUpperCase(Dictionary[i].word)) : i \in DOMAIN Dictionary }

(* What onresult can make of an event, for each expected letter. *)
HeardLetters ==
  [expected \in TargetAlphabet |->
     { letterOfEvent(results, expected) : results \in RecognitionEvents }]


MountVoice ==
  /\ variant = "voice" /\ modal = "unopened"
  /\ modal' = "shown"
  /\ stateRef' = RenderedRef(queue, <<>>)
  /\ UNCHANGED <<offGame, propVars, crashed, coreVars, typedVars, tileVars, gridVars, spokenLetters,
                 isListening, showDidntCatch, recognitionRef, isProcessingRef,
                 capturedThisSessionRef, recLive, listenTimers, countVars, histVars>>

(* startPlaying: the 600 ms timer for startListening is never cancelled. *)
VoiceStartPlaying ==
  /\ variant = "voice" /\ Live /\ ~renderPending
  /\ HasCurrentWord /\ gameState = "preview"
  /\ listenTimers < MaxTimers
  /\ gameState' = "speaking"
  /\ listenTimers' = listenTimers + 1
  /\ lastInput' = NoInput
  /\ UNCHANGED <<offGame, propVars, modal, crashed, queue, hadMistakeOnCurrentWord,
                 advanceCounter, score, feedback, wordResults, typedVars, tileVars, gridVars,
                 spokenLetters, isListening, showDidntCatch, recognitionRef,
                 isProcessingRef, capturedThisSessionRef, stateRef, recLive,  countVars, finishCalls, attempts,
                 curRejects>>

(* startListening(): a fresh recognition session, or nothing when the      *)
(* browser has no speech recognition.                                      *)
startListening ==
  IF ~speechRecognitionAPI
  THEN UNCHANGED <<showDidntCatch, capturedThisSessionRef, recognitionRef, recLive,
                   isListening>>
  ELSE /\ recLive < MaxSessions
       /\ showDidntCatch' = FALSE
       /\ capturedThisSessionRef' = FALSE
       /\ recognitionRef' = TRUE
       /\ recLive' = recLive + 1
       /\ isListening' = TRUE

VoiceListenTimer ==
  /\ variant = "voice" /\ Live /\ ~renderPending
  /\ listenTimers > 0
  /\ listenTimers' = listenTimers - 1
  /\ startListening
  /\ lastInput' = NoInput
  /\ UNCHANGED <<offGame, propVars, modal, crashed, coreVars, typedVars, tileVars, gridVars,
                 spokenLetters, isProcessingRef, stateRef, countVars, finishCalls, attempts, curRejects>>

(* The button of the speaking screen: isListening ? stopListening : startListening *)
VoiceListenButton ==
  /\ variant = "voice" /\ Live /\ ~renderPending
  /\ HasCurrentWord /\ gameState = "speaking"
  /\ IF isListening
       THEN /\ recognitionRef' = FALSE
            /\ isListening' = FALSE
            /\ UNCHANGED <<showDidntCatch, capturedThisSessionRef, recLive>>
       ELSE startListening
  /\ lastInput' = NoInput
  /\ UNCHANGED <<offGame, propVars, modal, crashed, coreVars, typedVars, tileVars, gridVars,
                 spokenLetters, isProcessingRef, stateRef, listenTimers,  countVars, finishCalls, attempts,
                 curRejects>>

(* recognition.onresult *)
VoiceResult ==
  /\ variant = "voice" /\ Live
  /\ recLive > 0
  /\ LET tLetters == stateRef.targetLetters
         len == stateRef.spokenLength
         hasExpected == len + 1 <= Len(tLetters)
         expected == tLetters[len + 1]
     IN
     \E letter \in IF hasExpected THEN HeardLetters[expected] ELSE {Null} :
       IF capturedThisSessionRef \/ ~hasExpected
       THEN /\ lastInput' = [judged |-> <<>>, dropped |-> capturedThisSessionRef]
            /\ UNCHANGED <<spokenLetters, gameState, score, hadMistakeOnCurrentWord,
                           isListening, isProcessingRef, capturedThisSessionRef,  countVars, curRejects>>
       ELSE IF letter = Null \/ isProcessingRef
       THEN /\ lastInput' = [judged |-> <<>>, dropped |-> (letter # Null)]
            /\ UNCHANGED <<spokenLetters, gameState, score, hadMistakeOnCurrentWord,
                           isListening, isProcessingRef, capturedThisSessionRef,  countVars, curRejects>>
       ELSE
         LET correct == letter = expected
             next == Append(spokenLetters, [letter |-> letter, correct |-> correct])
             full == FillsLastSlot(Len(next), tLetters)
             afterBonus == IF full THEN score + 10 * Len(next) + 200 ELSE score
         IN
         /\ correct \/ nRejected < MaxRejects
         /\ isProcessingRef' = TRUE
         /\ capturedThisSessionRef' = TRUE
         /\ spokenLetters' = next
         /\ gameState' = IF full THEN "feedback" ELSE gameState
         /\ score' = IF correct THEN afterBonus + 10 ELSE Deduct(afterBonus)
         /\ hadMistakeOnCurrentWord' = IF correct THEN hadMistakeOnCurrentWord ELSE TRUE
         /\ isListening' = FALSE
         /\ nAccepted' = IF correct THEN nAccepted + 1 ELSE nAccepted
         /\ nRejected' = IF correct THEN nRejected ELSE nRejected + 1
         /\ nAbsorbed' = IF ~correct /\ afterBonus < 10 THEN nAbsorbed + 1 ELSE nAbsorbed
         /\ nCompleted' = IF full /\ correct THEN nCompleted + 1 ELSE nCompleted
         /\ curRejects' = IF correct THEN curRejects ELSE curRejects + 1
         /\ lastInput' = [judged |-> <<Judgement(len + 1, Len(spokenLetters),
                                                 expected, letter)>>,
                          dropped |-> FALSE]
  /\ UNCHANGED <<offGame, propVars, modal, crashed, queue, advanceCounter, feedback,
                 wordResults, typedVars, tileVars, gridVars, showDidntCatch,
                 recognitionRef, stateRef, recLive, listenTimers, finishCalls,
                 attempts>>

(* setTimeout(() => { isProcessingRef.current = false; }, 100) *)
VoiceProcessingTimer ==
  /\ variant = "voice"
  /\ (Live /\ ~renderPending) \/ modal = "closed"
  /\ isProcessingRef
  /\ isProcessingRef' = FALSE
  /\ UNCHANGED <<offGame, propVars, modal, crashed, coreVars, typedVars, tileVars, gridVars,
                 spokenLetters, isListening, showDidntCatch, recognitionRef,
                 capturedThisSessionRef, stateRef, recLive, listenTimers, countVars, histVars>>

(* recognition.onerror; the session's end event follows. *)
VoiceError ==
  /\ variant = "voice" /\ Live
  /\ recLive > 0
  /\ isListening \/ recognitionRef
  /\ isListening' = FALSE
  /\ recognitionRef' = FALSE
  /\ UNCHANGED <<offGame, propVars, modal, crashed, coreVars, typedVars, tileVars, gridVars,
                 spokenLetters, showDidntCatch, isProcessingRef,
                 capturedThisSessionRef, stateRef, recLive, listenTimers, countVars, histVars>>

(* recognition.onend *)
VoiceEnd ==
  /\ variant = "voice" /\ Live
  /\ recLive > 0
  /\ recLive' = recLive - 1
  /\ isListening' = FALSE
  /\ recognitionRef' = FALSE
  /\ showDidntCatch' = IF capturedThisSessionRef THEN showDidntCatch ELSE TRUE
  /\ UNCHANGED <<offGame, propVars, modal, crashed, coreVars, typedVars, tileVars, gridVars,
                 spokenLetters, isProcessingRef, capturedThisSessionRef, stateRef,
                 listenTimers, countVars, histVars>>

(* The render React scheduled for updates made outside a click. *)
VoiceRender ==
  /\ variant = "voice" /\ Live
  /\ renderPending
  /\ stateRef' = RenderedRef(queue, spokenLetters)
  /\ UNCHANGED <<offGame, propVars, modal, crashed, coreVars, typedVars, tileVars, gridVars,
                 spokenLetters, isListening, showDidntCatch, recognitionRef,
                 isProcessingRef, capturedThisSessionRef, recLive, listenTimers, countVars, histVars>>

(* nextWord, the render it causes and resetLevel (which stops listening). *)
VoiceNextWord ==
  /\ variant = "voice" /\ Live /\ ~renderPending
  /\ HasCurrentWord /\ gameState = "feedback"
  /\ advanceCounter < MaxAdvances
  /\ LET hadMistake == hadMistakeOnCurrentWord
         nextQueue == NextQueue(queue, hadMistake)
     IN /\ queue' = nextQueue
        /\ hadMistakeOnCurrentWord' = FALSE
        /\ advanceCounter' = advanceCounter + 1
        /\ attempts' = Append(attempts, [wordId |-> currentWord.id,
                                         rejects |-> curRejects])
        /\ curRejects' = 0
        /\ recognitionRef' = FALSE
        /\ isListening' = FALSE
        /\ IF SessionOver(nextQueue)
             THEN /\ finishCalls' = InvokeOnFinish(finishCalls,
                        [score |-> score, results |-> <<>>, hasResults |-> FALSE])
                  /\ modal' = ModalAfterFinish
                  /\ UNCHANGED <<spokenLetters, showDidntCatch, gameState, stateRef>>
             ELSE /\ spokenLetters' = <<>>
                  /\ showDidntCatch' = FALSE
                  /\ gameState' = "preview"
                  /\ stateRef' = RenderedRef(nextQueue, <<>>)
                  /\ UNCHANGED <<finishCalls, modal>>
  /\ lastInput' = NoInput
  /\ UNCHANGED <<offGame, propVars, crashed, score, feedback, wordResults, typedVars,
                 tileVars, gridVars, isProcessingRef, capturedThisSessionRef,
                 recLive, listenTimers, countVars>>

(* After the voice modal is unmounted.  The cleanup of the unmount effect   *)
(* has called stopListening for the session recognitionRef held; the       *)
(* startListening timers of startPlaying were never cancelled.             *)
VoiceUnmounted == variant = "voice" /\ modal = "closed"

(* The timer of startPlaying fires: startListening() of the last render. *)
VoiceListenTimerUnmounted ==
  /\ VoiceUnmounted
  /\ listenTimers > 0
  /\ listenTimers' = listenTimers - 1
  /\ IF ~speechRecognitionAPI
       THEN UNCHANGED <<capturedThisSessionRef, recognitionRef, recLive>>
       ELSE /\ recLive < MaxSessions
            /\ capturedThisSessionRef' = FALSE
            /\ recognitionRef' = TRUE
            /\ recLive' = recLive + 1
  /\ UNCHANGED <<offGame, propVars, modal, crashed, coreVars, typedVars, tileVars, gridVars,
                 spokenLetters, isListening, showDidntCatch, isProcessingRef,
                 stateRef, countVars, histVars>>

(* recognition.onresult of a session that is still running. *)
VoiceResultUnmounted ==
  /\ VoiceUnmounted
  /\ recLive > 0
  /\ LET tLetters == stateRef.targetLetters
         len == stateRef.spokenLength
         hasExpected == len + 1 <= Len(tLetters)
         expected == tLetters[len + 1]
     IN
     \E letter \in IF hasExpected THEN HeardLetters[expected] ELSE {Null} :
       IF capturedThisSessionRef \/ ~hasExpected
       THEN /\ lastInput' = [judged |-> <<>>, dropped |-> capturedThisSessionRef]
            /\ UNCHANGED <<isProcessingRef, capturedThisSessionRef>>
       ELSE IF letter = Null \/ isProcessingRef
       THEN /\ lastInput' = [judged |-> <<>>, dropped |-> (letter # Null)]
            /\ UNCHANGED <<isProcessingRef, capturedThisSessionRef>>
       ELSE /\ isProcessingRef' = TRUE
            /\ capturedThisSessionRef' = TRUE
            /\ lastInput' = [judged |-> <<Judgement(len + 1, Len(spokenLetters),
                                                    expected, letter)>>,
                             dropped |-> FALSE]
  /\ UNCHANGED <<offGame, propVars, modal, crashed, coreVars, typedVars, tileVars, gridVars,
                 spokenLetters, isListening, showDidntCatch, recognitionRef,
                 stateRef, recLive, listenTimers, countVars, finishCalls, attempts,
                 curRejects>>

(* recognition.onend of a session that is still running. *)
VoiceEndUnmounted ==
  /\ VoiceUnmounted
  /\ recLive > 0
  /\ recLive' = recLive - 1
  /\ recognitionRef' = FALSE
  /\ UNCHANGED <<offGame, propVars, modal, crashed, coreVars, typedVars, tileVars, gridVars,
                 spokenLetters, isListening, showDidntCatch, isProcessingRef,
                 capturedThisSessionRef, stateRef, listenTimers, countVars, histVars>>

----------------------------------------------------------------------------
(* Grid variant: src/components/SpellingModal.tsx:26-271 *)

Cell(x, y) == [x |-> x, y |-> y]

Abs(n) == IF n < 0 THEN -n ELSE n

(* The cells the player steers the snake over: those around its start, *)
(* and the row above it from there over the right edge to the left one. *)
Arena ==
  ({ Cell(x, y) : x \in 0..(GRID_SIZE - 1), y \in 0..(GRID_SIZE - 1) } \cap
   { c \in [x : 0..(GRID_SIZE - 1), y : 0..(GRID_SIZE - 1)] :
       Abs(c.x - INITIAL_SNAKE[1].x) + Abs(c.y - INITIAL_SNAKE[1].y) <= ArenaRadius })
  \cup { Cell((x + GRID_SIZE) % GRID_SIZE, INITIAL_SNAKE[1].y - 1) :
           x \in (INITIAL_SNAKE[1].x + ArenaRadius) .. GRID_SIZE }

Directions == { <<1, 0>>, <<-1, 0>>, <<0, 1>>, <<0, -1>> }

Wrap(n) == (n + GRID_SIZE) % GRID_SIZE

(* Math.random is enumerated by a seed: the cells tried for the letters    *)
(* are those around the head, taken in this order from the seed-th free    *)
(* one, and the distractor characters are taken from the seed-th one.      *)
SpawnOffsets ==
  << <<1, 0>>, <<-1, 0>>, <<0, 1>>, <<0, -1>>,
     <<2, 0>>, <<-2, 0>>, <<0, 2>>, <<0, -2>>, <<3, 3>> >>

OnSnakeNever(c, currentSnake) == FALSE
OnSnake(c, currentSnake) == \E i \in DOMAIN currentSnake : currentSnake[i] = c

FreeCells(currentSnake) ==
  LET head == currentSnake[1]
      cells == [i \in DOMAIN SpawnOffsets |->
                  Cell(Wrap(head.x + SpawnOffsets[i][1]),
                       Wrap(head.y + SpawnOffsets[i][2]))]
  IN SelectSeq(cells, LAMBDA c : ~OnSnake(c, currentSnake))

(* spawnLetters(alreadyCollected, currentSnake, wordToSpell) under a seed; *)
(* old is the letter set kept when every letter is already collected.      *)
spawnLetters(alreadyCollected, currentSnake, wordToSpell, seed, old) ==
  LET lettersToSpell == toUpperCase(wordToSpell)
      free == FreeCells(currentSnake)
      cellOf(i) == free[((seed + i - 2) % Len(free)) + 1]
  IN
  IF Len(alreadyCollected) >= Len(lettersToSpell) THEN old
  ELSE
    LET nextChar == lettersToSpell[Len(alreadyCollected) + 1]
        others == SelectSeq(Uppers, LAMBDA c : c # nextChar)
        charOf(i) == IF i = 1 THEN nextChar
                     ELSE others[((7 * seed + i) % Len(others)) + 1]
    IN [i \in 1..(1 + DISTRACTOR_COUNT) |->
          [id |-> i, char |-> charOf(i), x |-> cellOf(i).x, y |-> cellOf(i).y,
           isCorrect |-> (i = 1), isFlaggedWrong |-> FALSE]]

(* A render evaluates currentWord.word for moveSnake's dependency list     *)
(* (line 205) before the empty-queue placeholder of line 265.              *)
GridRenderThrows(q) == q = <<>>

MountGrid ==
  /\ variant = "grid" /\ modal = "unopened"
  /\ modal' = "shown"
  /\ IF GridRenderThrows(queue)
       THEN /\ crashed' = TRUE
            /\ UNCHANGED <<snake, activeLetters, collectedLetters, gameState>>
       ELSE /\ crashed' = FALSE
            /\ snake' = INITIAL_SNAKE
            /\ collectedLetters' = <<>>
            /\ \E seed \in 1..NumSeeds :
                 activeLetters' = spawnLetters(<<>>, INITIAL_SNAKE, currentWord.word,
                                               seed, activeLetters)
            /\ gameState' = "preview"
  /\ UNCHANGED <<offGame, propVars, queue, hadMistakeOnCurrentWord, advanceCounter, score,
                 feedback, wordResults, typedVars, tileVars, isProcessingLetter,
                 pendingCollect, voiceVars, countVars, histVars>>

GridStartPlaying ==
  /\ variant = "grid" /\ Live /\ HasCurrentWord /\ gameState = "preview"
  /\ pendingCollect = <<>>
  /\ gameState' = "playing"
  /\ lastInput' = NoInput
  /\ UNCHANGED <<offGame, propVars, modal, crashed, queue, hadMistakeOnCurrentWord,
                 advanceCounter, score, feedback, wordResults, typedVars, tileVars,
                 gridVars, voiceVars, countVars, finishCalls, attempts, curRejects>>

HitLetter(letters, newHead) ==
  LET hits == { i \in DOMAIN letters :
                  letters[i].x = newHead.x /\ letters[i].y = newHead.y }
  IN IF hits = {} THEN 0 ELSE CHOOSE i \in hits : \A j \in hits : i <= j

(* moveSnake on the correct letter: newSnake = [newHead, ...prev] *)
Grown(prev, newHead) == <<newHead>> \o prev

(* moveSnake on no letter: newSnake = [newHead, ...prev]; newSnake.pop() *)
MovedWithoutPop(prev, newHead) == <<newHead>> \o prev
Moved(prev, newHead) == <<newHead>> \o SubSeq(prev, 1, Len(prev) - 1)

(* moveSnake(dx, dy), called by the arrow keys and by a touch drag while   *)
(* the rendered gameState is 'playing'.                                    *)
GridMove ==
  /\ variant = "grid" /\ Live /\ HasCurrentWord /\ gameState = "playing"
  /\ \E d \in Directions :
       LET head == snake[1]
           newHead == Cell(Wrap(head.x + d[1]), Wrap(head.y + d[2]))
           hit == HitLetter(activeLetters, newHead)
       IN
       /\ newHead \in Arena
       /\ IF isProcessingLetter
          THEN /\ lastInput' = [judged |-> <<>>, dropped |-> TRUE]
               /\ UNCHANGED <<snake, activeLetters, isProcessingLetter,
                              pendingCollect, hadMistakeOnCurrentWord, score,
                              nRejected, nAbsorbed, curRejects>>
          ELSE IF Len(snake) > 1 /\ newHead = snake[2]
          THEN /\ lastInput' = NoInput
               /\ UNCHANGED <<snake, activeLetters, isProcessingLetter,
                              pendingCollect, hadMistakeOnCurrentWord, score,
                              nRejected, nAbsorbed, curRejects>>
          ELSE IF hit # 0 /\ activeLetters[hit].isCorrect
          THEN /\ isProcessingLetter' = TRUE
               /\ activeLetters' = RemoveAt(activeLetters, hit)
               /\ snake' = Grown(snake, newHead)
               /\ pendingCollect' = <<activeLetters[hit].char>>
               /\ lastInput' = NoInput
               /\ UNCHANGED <<hadMistakeOnCurrentWord, score, nRejected, nAbsorbed,
                              curRejects>>
          ELSE IF hit # 0
          THEN /\ nRejected < MaxRejects
               /\ hadMistakeOnCurrentWord' = TRUE
               /\ score' = Deduct(score)
               /\ activeLetters' = [activeLetters EXCEPT ![hit].isFlaggedWrong = TRUE]
               /\ nRejected' = nRejected + 1
               /\ nAbsorbed' = IF score < 10 THEN nAbsorbed + 1 ELSE nAbsorbed
               /\ curRejects' = curRejects + 1
               /\ lastInput' =
                    [judged |-> <<Judgement(Len(collectedLetters) + 1,
                                  Len(collectedLetters),
                                  targetLetters[Len(collectedLetters) + 1],
                                  activeLetters[hit].char)>>,
                     dropped |-> FALSE]
               /\ UNCHANGED <<snake, isProcessingLetter, pendingCollect>>
          ELSE /\ snake' = Moved(snake, newHead)
               /\ lastInput' = NoInput
               /\ UNCHANGED <<activeLetters, isProcessingLetter, pendingCollect,
                              hadMistakeOnCurrentWord, score, nRejected, nAbsorbed,
                              curRejects>>
  /\ UNCHANGED <<offGame, propVars, modal, crashed, queue, advanceCounter, gameState,
                 feedback, wordResults, typedVars, tileVars, collectedLetters,
                 voiceVars, nAccepted, nCompleted, finishCalls, attempts>>

(* The render that runs the setCollectedLetters updater queued by a        *)
(* correct hit (lines 152-183).                                            *)
GridCommit ==
  /\ variant = "grid" /\ Live /\ HasCurrentWord
  /\ pendingCollect # <<>>
  /\ LET char == pendingCollect[1]
         currentTargetLetters == toUpperCase(currentWord.word)
         prevLetters == collectedLetters
     IN
     IF Len(prevLetters) >= Len(currentTargetLetters)
     THEN /\ lastInput' = NoInput
          /\ UNCHANGED <<collectedLetters, score, gameState, feedback, activeLetters,
                         nAccepted, nCompleted>>
     ELSE IF char # currentTargetLetters[Len(prevLetters) + 1]
     THEN /\ lastInput' = [judged |-> <<Judgement(Len(prevLetters) + 1,
                               Len(collectedLetters),
                               currentTargetLetters[Len(prevLetters) + 1], char)>>,
                           dropped |-> FALSE]
          /\ UNCHANGED <<collectedLetters, score, gameState, feedback, activeLetters,
                         nAccepted, nCompleted>>
     ELSE
       LET updated == Append(prevLetters, char)
           full == FillsLastSlot(Len(updated), currentTargetLetters)
       IN
       /\ collectedLetters' = updated
       /\ score' = IF full THEN score + 10 + 200 ELSE score + 10
       /\ gameState' = IF full THEN "feedback" ELSE gameState
       /\ feedback' = IF full THEN <<[correct |-> TRUE, word |-> currentWord.word]>>
                      ELSE feedback
       /\ IF full
            THEN activeLetters' = activeLetters
            ELSE \E seed \in 1..NumSeeds :
                   activeLetters' = spawnLetters(updated, snake, currentWord.word,
                                                 seed, activeLetters)
       /\ nAccepted' = nAccepted + 1
       /\ nCompleted' = IF full THEN nCompleted + 1 ELSE nCompleted
       /\ lastInput' = [judged |-> <<Judgement(Len(prevLetters) + 1,
                               Len(collectedLetters),
                               currentTargetLetters[Len(prevLetters) + 1], char)>>,
                        dropped |-> FALSE]
  /\ isProcessingLetter' = FALSE
  /\ pendingCollect' = <<>>
  /\ UNCHANGED <<offGame, propVars, modal, crashed, queue, hadMistakeOnCurrentWord,
                 advanceCounter, wordResults, typedVars, tileVars, snake, voiceVars,
                 nRejected, nAbsorbed, finishCalls, attempts, curRejects>>

(* nextWord, the render it causes and resetLevel. *)
GridNextWord ==
  /\ variant = "grid" /\ Live /\ HasCurrentWord
  /\ gameState = "feedback" /\ feedback # <<>>
  /\ pendingCollect = <<>>
  /\ advanceCounter < MaxAdvances
  /\ LET hadMistake == hadMistakeOnCurrentWord
         nextQueue == NextQueue(queue, hadMistake)
     IN /\ feedback' = <<>>
        /\ queue' = nextQueue
        /\ hadMistakeOnCurrentWord' = FALSE
        /\ advanceCounter' = advanceCounter + 1
        /\ attempts' = Append(attempts, [wordId |-> currentWord.id,
                                         rejects |-> curRejects])
        /\ curRejects' = 0
        /\ IF SessionOver(nextQueue)
             THEN /\ finishCalls' = InvokeOnFinish(finishCalls,
                        [score |-> score, results |-> <<>>, hasResults |-> FALSE])
                  /\ modal' = ModalAfterFinish
                  /\ UNCHANGED <<snake, collectedLetters, activeLetters, gameState>>
             ELSE /\ snake' = INITIAL_SNAKE
                  /\ collectedLetters' = <<>>
                  /\ \E seed \in 1..NumSeeds :
                       activeLetters' = spawnLetters(<<>>, INITIAL_SNAKE,
                                          nextQueue[1].word, seed, activeLetters)
                  /\ gameState' = "preview"
                  /\ UNCHANGED <<finishCalls, modal>>
  /\ lastInput' = NoInput
  /\ UNCHANGED <<offGame, propVars, crashed, score, wordResults, typedVars, tileVars,
                 isProcessingLetter, pendingCollect, voiceVars, countVars>>

----------------------------------------------------------------------------
Next ==
  \/ MountTyped
  \/ MountTile
  \/ Close
  \/ TypedStartPlaying
  \/ TypedKeyDown
  \/ TypedNextWord
  \/ TileStartPlaying
  \/ TileTap
  \/ TileNextWord
  \/ TileWrongTimer
  \/ MountGrid
  \/ GridStartPlaying
  \/ GridMove
  \/ GridCommit
  \/ GridNextWord
  \/ MountVoice
  \/ VoiceStartPlaying
  \/ VoiceListenTimer
  \/ VoiceListenButton
  \/ VoiceResult
  \/ VoiceProcessingTimer
  \/ VoiceError
  \/ VoiceEnd
  \/ VoiceRender
  \/ VoiceNextWord
  \/ VoiceListenTimerUnmounted
  \/ VoiceResultUnmounted
  \/ VoiceEndUnmounted

Spec == Init /\ [][Next]_vars

(* The typed variant alone, played by someone who goes on: the steps the   *)
(* component takes by itself happen, and a key that is judged correct is   *)
(* pressed again and again whenever there is one.  The word lists hold a   *)
(* word of letters and a word with a hyphen.                               *)
Hyphenated == [id |-> 3, word |-> <<"a","-","t">>]

PhraseLists == { <<Dictionary[2]>>, <<Hyphenated>>, <<Dictionary[2], Hyphenated>> }

TypedInit ==
  GameStart(PhraseLists) /\ variant = "typed" /\ StoreParked /\ AppParked /\ LibParked

CorrectKeyDown == TypedKeyDown /\ nAccepted' > nAccepted

TypedNext ==
  \/ MountTyped
  \/ TypedStartPlaying
  \/ TypedKeyDown
  \/ TypedNextWord

TypedSpec ==
  /\ TypedInit /\ [][TypedNext]_vars
  /\ WF_vars(MountTyped) /\ WF_vars(TypedStartPlaying) /\ WF_vars(TypedNextWord)
  /\ SF_vars(CorrectKeyDown)

(* QuizModal (Bubble Pop Quiz).  A question is its answer and its options; *)
(* generateQuizQuestions returns what the service made of the words.       *)
MaxQuestions == 2

Questions ==
  { [answer |-> "x", options |-> {"x", "y"}],
    [answer |-> "y", options |-> {"x", "y"}],
    [answer |-> "z", options |-> {"y", "z"}],
    [answer |-> "w", options |-> {"x"}] }

QuestionLists == UNION { [1..n -> Questions] : n \in 0..MaxQuestions }

(* What the quiz leaves alone. *)
offQuiz == <<storeVars, appVars, libVars, propVars, queue, hadMistakeOnCurrentWord,
             advanceCounter, gameState, wordResults, typedVars, tileVars, gridVars,
             voiceVars, countVars, attempts, curRejects, lastInput>>

(* StudentDashboard shows the modal: the first render, with loading set. *)
QuizInit ==
  /\ GameStart({<<>>})
  /\ variant = "typed"
  /\ StoreParked /\ AppParked /\ LibParked

MountQuiz ==
  /\ modal = "unopened"
  /\ modal' = "shown"
  /\ UNCHANGED <<offQuiz, crashed, score, feedback, finishCalls, quizVars>>

(* fetchQuiz has ended: the questions are set unless the call has thrown. *)
(* The render that follows reads current.question of                     *)
(* questions[currentIndex], which throws when there is no such question. *)
QuizLoaded ==
  /\ Live /\ loading
  /\ \E qs \in QuestionLists :
       /\ questions' = qs
       /\ crashed' = (currentIndex + 1 > Len(qs))
  /\ loading' = FALSE
  /\ UNCHANGED <<offQuiz, modal, score, feedback, finishCalls, currentIndex, bubbles,
                 pops>>

(* The effect on [loading, currentIndex, feedback]: one bubble per option *)
(* of the current question.                                              *)
QuizBubbles ==
  /\ Live /\ ~loading /\ Len(questions) > 0 /\ feedback = <<>>
  /\ bubbles # questions[currentIndex + 1].options
  /\ bubbles' = questions[currentIndex + 1].options
  /\ UNCHANGED <<offQuiz, modal, crashed, score, feedback, finishCalls, questions,
                 loading, currentIndex, pops>>

PopScoreAlways(s, isCorrect) == s + 100

(* if (isCorrect) setScore(s => s + 100) *)
PopScore(s, isCorrect) == IF isCorrect THEN s + 100 ELSE s

(* handlePop(bubble), for a click on a bubble on screen or still on its way *)
HandlePop ==
  /\ Live /\ ~loading
  /\ \E text \in bubbles :
       IF feedback # <<>>
       THEN UNCHANGED <<score, feedback, pops>>
       ELSE LET isCorrect == text = questions[currentIndex + 1].answer
            IN /\ score' = PopScore(score, isCorrect)
               /\ feedback' = [correct |-> isCorrect]
               /\ pops' = Append(pops, [index |-> currentIndex, text |-> text])
  /\ UNCHANGED <<offQuiz, modal, crashed, finishCalls, questions, loading,
                 currentIndex, bubbles>>

(* nextQuestion, the button of the feedback overlay; StudentDashboard     *)
(* hides the modal in its onFinish.                                      *)
QuizNextQuestion ==
  /\ Live /\ ~loading /\ feedback # <<>>
  /\ feedback' = <<>>
  /\ IF currentIndex + 1 < Len(questions)
     THEN /\ currentIndex' = currentIndex + 1
          /\ UNCHANGED <<finishCalls, modal>>
     ELSE /\ finishCalls' = InvokeOnFinish(finishCalls, [score |-> score])
          /\ modal' = ModalAfterFinish
          /\ UNCHANGED currentIndex
  /\ UNCHANGED <<offQuiz, crashed, score, questions, loading, bubbles, pops>>

(* The close button: onClose hides the modal. *)
QuizClose ==
  /\ Live
  /\ modal' = ModalAfterClose
  /\ UNCHANGED <<offQuiz, crashed, score, feedback, finishCalls, quizVars>>

QuizNext ==
  \/ MountQuiz
  \/ QuizLoaded
  \/ QuizBubbles
  \/ HandlePop
  \/ QuizNextQuestion
  \/ QuizClose

QuizSpec == QuizInit /\ [][QuizNext]_vars

(* The tile variant alone.  The timer of the wrong-tile effect fires when *)
(* it is left armed: setTimeout runs its callback unless it is cleared.   *)
TileInit == Init /\ variant = "tile"

TileNext ==
  \/ MountTile
  \/ Close
  \/ TileStartPlaying
  \/ TileTap
  \/ TileNextWord
  \/ TileWrongTimer

TileSpec == TileInit /\ [][TileNext]_vars /\ WF_vars(TileWrongTimer)

----------------------------------------------------------------------------
(* Properties of the sessions *)

(* The number of slots of the current word that hold a letter. *)
FilledSlots ==
  CASE variant = "typed" -> Len(typedLetters)
    [] variant = "tile"  -> Len(placedLetters)
    [] variant = "grid"  -> Len(collectedLetters)
    [] variant = "voice" -> Len(spokenLetters)

(* The candidates judged so far in the running attempt. *)
JudgedInAttempt ==
  IF variant = "grid" THEN Len(collectedLetters) + curRejects ELSE FilledSlots

EntriesOf(results, id) == { k \in DOMAIN results : results[k].wordId = id }

RecordedCorrect(results, id) ==
  \E k \in EntriesOf(results, id) : results[k].correct

CleanAttempt(id) ==
  \E a \in DOMAIN attempts : attempts[a].wordId = id /\ attempts[a].rejects = 0

(* C1: in the tile-order and typed-letter variants the result list passed  *)
(* to onFinish holds exactly one entry for each distinct word of the input *)
(* list, however many attempts a word took.                                *)
C1_OneEntryPerWord ==
  \A i \in DOMAIN finishCalls :
    finishCalls[i].hasResults =>
      /\ Len(finishCalls[i].results) = Cardinality(Range(wordEntries))
      /\ \A w \in Range(wordEntries) :
           Cardinality(EntriesOf(finishCalls[i].results, w.id)) = 1

(* C2: in every variant onFinish is invoked at most once in a session, and *)
(* the score it receives is an integer >= 0.                               *)
C2_FinishAtMostOnce ==
  /\ Len(finishCalls) <= 1
  /\ \A i \in DOMAIN finishCalls : finishCalls[i].score \in Nat

(* A session that ended through onFinish after a rejected candidate whose  *)
(* deduction met the floor, and was then closed by the parent.             *)
C2_Witness ==
  /\ Len(finishCalls) = 1
  /\ modal = "closed"
  /\ nRejected > 0 /\ nAbsorbed > 0
  /\ Len(attempts) > Len(wordEntries)

(* C3: the score equals 10 * accepted letters - 10 * rejected candidates   *)
(* + 200 * words completed with the final letter correct, the deductions   *)
(* absorbed by the floor at 0 left out.                                    *)
C3_ScoreFormula ==
  score = 10 * nAccepted - 10 * (nRejected - nAbsorbed) + 200 * nCompleted

(* C4: in the variants that report results, a word has an entry with       *)
(* correct = TRUE in the list (the one onFinish receives and the one being *)
(* accumulated) exactly if some ended attempt at it had no rejected        *)
(* candidate.                                                              *)
C4_CorrectIffCleanAttempt ==
  variant \in {"typed", "tile"} =>
    /\ \A w \in Range(wordEntries) :
         RecordedCorrect(wordResults, w.id) <=> CleanAttempt(w.id)
    /\ \A i \in DOMAIN finishCalls :
         /\ finishCalls[i].hasResults
         /\ \A w \in Range(wordEntries) :
              RecordedCorrect(finishCalls[i].results, w.id) <=> CleanAttempt(w.id)

(* onFinish received a list in which a word failed once and then succeeded. *)
C4_Witness ==
  /\ Len(finishCalls) = 1
  /\ finishCalls[1].hasResults
  /\ \E j, k \in DOMAIN finishCalls[1].results :
       /\ finishCalls[1].results[j].wordId = finishCalls[1].results[k].wordId
       /\ ~finishCalls[1].results[j].correct
       /\ finishCalls[1].results[k].correct
  /\ \E a \in DOMAIN attempts : attempts[a].rejects > 0

(* C5: when an attempt ends the head word leaves the queue if the attempt  *)
(* had no rejected candidate and moves to the back otherwise; no other     *)
(* step changes the queue, so the other words keep their order and the     *)
(* queue never grows; every candidate is judged against the head word.     *)
C5_QueueDiscipline ==
  [][ /\ Len(queue') <= Len(queue)
      /\ Len(attempts') > Len(attempts) =>
           /\ queue # <<>>
           /\ attempts' = Append(attempts, [wordId |-> Head(queue).id,
                                            rejects |-> curRejects])
           /\ queue' = IF curRejects = 0 THEN Tail(queue)
                       ELSE Append(Tail(queue), Head(queue))
      /\ Len(attempts') = Len(attempts) => queue' = queue
      /\ \A i \in DOMAIN lastInput'.judged :
           /\ queue' # <<>>
           /\ lastInput'.judged[i].expected =
                toUpperCase(Head(queue').word)[lastInput'.judged[i].slot]
    ]_vars

(* The first of two words was failed and now waits behind the second. *)
C5_Witness ==
  /\ Len(wordEntries) = 2
  /\ queue = <<wordEntries[2], wordEntries[1]>>
  /\ Len(attempts) = 1
  /\ attempts[1].rejects > 0
  /\ modal = "shown"

(* C6: onFinish is invoked in a step exactly if that step empties the      *)
(* queue, once; a step that closes the modal with a word still queued      *)
(* leaves onFinish uninvoked.                                              *)
C6_FinishOnExhaustion ==
  [][ /\ (finishCalls' # finishCalls) <=> (queue # <<>> /\ queue' = <<>>)
      /\ finishCalls' # finishCalls =>
           /\ Len(finishCalls') = Len(finishCalls) + 1
           /\ SubSeq(finishCalls', 1, Len(finishCalls)) = finishCalls
      /\ (modal = "shown" /\ modal' = "closed" /\ queue' # <<>>) =>
           finishCalls' = finishCalls
    ]_vars

(* A session of two words that was closed with a word still queued. *)
C6_Witness ==
  /\ Len(wordEntries) = 2
  /\ modal = "closed"
  /\ Len(queue) = 1
  /\ Len(attempts) >= 1
  /\ finishCalls = <<>>

(* C7: one input event leads to at most one judgement and at most one      *)
(* accepted or rejected candidate being scored, and a judged candidate is  *)
(* compared with the first slot no committed candidate has filled.         *)
C7_ScoredOnce ==
  [][ /\ Len(lastInput'.judged) <= 1
      /\ (nAccepted' + nRejected') - (nAccepted + nRejected) <= 1
      /\ \A i \in DOMAIN lastInput'.judged :
           lastInput'.judged[i].slot = lastInput'.judged[i].filled + 1
    ]_vars

(* A recognition result arrived after a letter was captured and before the *)
(* render that commits it, and was dropped.                                *)
C7_Witness ==
  /\ variant = "voice"
  /\ modal = "shown"
  /\ renderPending
  /\ isProcessingRef
  /\ lastInput.dropped
  /\ lastInput.judged = <<>>

(* C8: a session started with an empty word list shows the placeholder:    *)
(* no exception is raised, onFinish is not invoked and the score stays 0.  *)
C8_EmptyListPlaceholder ==
  (wordEntries = <<>> /\ modal # "unopened") =>
    /\ ~crashed
    /\ finishCalls = <<>>
    /\ score = 0

(* C9: in the tile-order session of the single word CAT with one accepted  *)
(* letter and then one wrong tile in the first attempt, a clean second     *)
(* attempt and 'next word', onFinish is called with score 230 and a result *)
(* list that reports the word as { wordId, 'CAT', correct: false }.        *)
C9_TileCatSession ==
  ( /\ variant = "tile"
    /\ wordEntries = <<Dictionary[1]>>
    /\ attempts = << [wordId |-> 1, rejects |-> 1],
                     [wordId |-> 1, rejects |-> 0] >>
    /\ nAccepted = 4 /\ nRejected = 1
    /\ finishCalls # <<>> ) =>
    finishCalls = << [score |-> 230,
                      results |-> << [wordId |-> 1, word |-> <<"C","A","T">>,
                                      correct |-> FALSE] >>,
                      hasResults |-> TRUE] >>

(* What holds of every judged candidate, filled slot and accepted letter   *)
(* in both readings of C10.                                                *)
SlotsInOrder ==
  /\ FilledSlots <= Len(targetLetters)
  /\ \A i \in DOMAIN lastInput.judged :
       /\ lastInput.judged[i].slot \in 1..Len(targetLetters)
       /\ lastInput.judged[i].expected = targetLetters[lastInput.judged[i].slot]
  /\ collectedLetters = SubSeq(targetLetters, 1, Len(collectedLetters))
  /\ \A i \in DOMAIN placedLetters :
       /\ placedLetters[i].correct <=> placedLetters[i].letter = targetLetters[i]
       /\ i < Len(placedLetters) => placedLetters[i].correct
  /\ \A i \in DOMAIN typedLetters :
       typedLetters[i].correct <=> typedLetters[i].letter = targetLetters[i]
  /\ \A i \in DOMAIN spokenLetters :
       spokenLetters[i].correct <=> spokenLetters[i].letter = targetLetters[i]

(* C10, as the code has it: a judged candidate is compared with the letter *)
(* of the first unfilled slot of the word's uppercase form (in the grid    *)
(* game a rejected candidate fills no slot, so the next candidate is       *)
(* compared with the same letter); the accepted letters form a prefix of   *)
(* the word and the filled slots never exceed its length.                  *)
C10_LeftToRight ==
  (Live /\ HasCurrentWord) =>
    /\ SlotsInOrder
    /\ \A i \in DOMAIN lastInput.judged :
         lastInput.judged[i].slot = lastInput.judged[i].filled + 1

(* A grid attempt in which a letter was collected after a rejected one. *)
C10_Witness ==
  /\ variant = "grid"
  /\ Live /\ HasCurrentWord
  /\ curRejects > 0
  /\ Len(collectedLetters) > 0
  /\ lastInput.judged # <<>>
  /\ lastInput.judged[1].accepted

(* C10, as stated: the k-th candidate judged in an attempt is compared     *)
(* with letter k of the word's uppercase form; the accepted letters form a *)
(* prefix of the word and the filled slots never exceed its length.        *)
C10_KthCandidate ==
  (Live /\ HasCurrentWord) =>
    /\ SlotsInOrder
    /\ \A i \in DOMAIN lastInput.judged :
         lastInput.judged[i].slot = JudgedInAttempt

(* The letters held by the slots of the current word, in slot order. *)
SlotLetters ==
  CASE variant = "typed" -> [i \in DOMAIN typedLetters |-> typedLetters[i].letter]
    [] variant = "tile"  -> [i \in DOMAIN placedLetters |-> placedLetters[i].letter]
    [] variant = "grid"  -> collectedLetters
    [] variant = "voice" -> [i \in DOMAIN spokenLetters |-> spokenLetters[i].letter]

(* C11, as stated: the per-word state is 'feedback' only when the word has *)
(* been fully and correctly spelled in the attempt.                        *)
C11_FeedbackOnlyWhenSpelled ==
  (HasCurrentWord /\ gameState = "feedback") => SlotLetters = targetLetters

(* C11, as the code has it: the per-word state is 'feedback' only when     *)
(* every slot of the word has been filled in the attempt; in the grid and  *)
(* tile-order variants every slot then holds the right letter, in the      *)
(* typed-letter and voice variants the slots hold the right letters        *)
(* exactly if no candidate of the attempt was rejected.                    *)
C11_FeedbackOnlyWhenFilled ==
  (HasCurrentWord /\ gameState = "feedback") =>
    /\ Len(SlotLetters) = Len(targetLetters)
    /\ variant \in {"grid", "tile"} => SlotLetters = targetLetters
    /\ variant \in {"typed", "voice"} =>
         (SlotLetters = targetLetters <=> ~hadMistakeOnCurrentWord)

(* The typed-letter game shows the feedback screen for a word typed with a *)
(* wrong letter in its last slot.                                          *)
C11_Witness ==
  /\ variant = "typed" /\ Live /\ HasCurrentWord
  /\ gameState = "feedback"
  /\ Len(typedLetters) = Len(targetLetters)
  /\ ~typedLetters[Len(typedLetters)].correct

(* The attempt goes on: the word is active and no advance is pending. *)
AttemptOpen ==
  /\ gameState \in {"typing", "playing", "speaking"}
  /\ ~(variant = "tile" /\ showWrongAndAdvance)

(* A step in which a candidate is rejected. *)
Rejects == nRejected' = nRejected + 1

(* What a rejecting step leaves alone in every variant. *)
RejectFrame ==
  /\ queue' = queue
  /\ attempts' = attempts
  /\ wordResults' = wordResults
  /\ finishCalls' = finishCalls
  /\ modal' = modal
  /\ hadMistakeOnCurrentWord'

CandidateInput ==
  TypedKeyDown \/ TileTap \/ GridMove \/ GridCommit \/ VoiceResult

(* C13: while the per-word state is starting, preview or feedback, no      *)
(* candidate input changes the score, the slot progress, the mistake flag  *)
(* or the queue.                                                           *)
C13_NoInputOutsideActive ==
  [][ (gameState \in {"starting", "preview", "feedback"} /\ CandidateInput) =>
        UNCHANGED <<score, typedLetters, placedLetters, collectedLetters,
                    spokenLetters, hadMistakeOnCurrentWord, queue>>
    ]_vars

(* C15: once a mini-game is closed or unmounted no timer it set is pending *)
(* and, from then on, no recognition session starts and no candidate is    *)
(* delivered to its handlers.                                              *)
C15_NothingOutlivesSession ==
  [][ /\ modal' = "closed" => listenTimers' = 0
      /\ modal = "closed" =>
           /\ recLive' <= recLive
           /\ lastInput' # lastInput => lastInput'.judged = <<>>
    ]_vars

(* startListening() in a browser without speech recognition. *)
UnsupportedStart ==
  ~speechRecognitionAPI /\ (VoiceListenTimer \/ VoiceListenButton)

(* A step in which speech recognition fails: an error event, a session     *)
(* that ends without a letter, a start without the API.                    *)
RecognitionFailure ==
  VoiceError \/ (VoiceEnd /\ ~capturedThisSessionRef) \/ UnsupportedStart

(* A step of a handler that speaks the word or plays the success sound. *)
AudioStep ==
  \/ TypedStartPlaying \/ TileStartPlaying \/ GridStartPlaying \/ VoiceStartPlaying
  \/ TileTap

----------------------------------------------------------------------------
(* Part 2: the repository, src/lib/supabaseQueries.ts *)

MaxCallers == 2
MaxCalls == 2
MaxFaults == 1

Callers == 1..MaxCallers

(* The inFlight are made for one student and one date; rows of another       *)
(* student and of another date are in the tables from the start.          *)
TargetStudent == "s1"
TargetDate == "d1"
WordIds == {"w1", "w2"}
WordIdLists == { <<>>, <<"w1">>, <<"w2", "w1">>, <<"w1", "w1">> }
PointIncrements == {0, 10, 50}

(* src/supabase_schema.sql:76-88: a row of vocab_daily_quests *)
QuestRow(id, s, w, d) ==
  [id |-> id, student_id |-> s, word_id |-> w, quest_date |-> d]

QuestKey(r) == <<r.student_id, r.word_id, r.quest_date>>

(* src/supabase_schema.sql:57-70: a row of vocab_student_progress *)
ProgressRow(s, p) == [student_id |-> s, points |-> p]

ForeignQuests == { QuestRow(1, "s2", "w1", "d1"), QuestRow(2, "s1", "w1", "d2") }
TargetQuests == { QuestRow(3, "s1", "w1", "d1"), QuestRow(4, "s1", "w2", "d1") }
ForeignProgress == { ProgressRow("s2", 30) }
TargetProgress == { {}, {ProgressRow("s1", 0)}, {ProgressRow("s1", 20)} }

(* .single(): data is the row when exactly one row matches, null otherwise. *)
Single(rows) == IF Cardinality(rows) = 1 THEN rows ELSE {}

TheRow(data) == CHOOSE r \in data : TRUE

(* .eq('student_id', s).eq('word_id', w).eq('quest_date', d) *)
QuestsWhere(rows, s, w, d) ==
  { r \in rows : r.student_id = s /\ r.word_id = w /\ r.quest_date = d }

DeleteByIdKeepsRow(rows, id) == rows
(* .delete().eq('id', id) *)
DeleteById(rows, id) == { r \in rows : r.id # id }

DeleteWhereDate(rows, s, d) == { r \in rows : r.quest_date # d }
(* .delete().eq('student_id', s).eq('quest_date', d) *)
DeleteWhere(rows, s, d) ==
  { r \in rows : ~(r.student_id = s /\ r.quest_date = d) }

NoUniqueConstraint(rows, new) == FALSE
(* UNIQUE(student_id, word_id, quest_date): an insert statement that would  *)
(* leave two rows with one key fails as a whole.                            *)
UniqueViolation(rows, new) ==
  \/ \E i, j \in DOMAIN new : i # j /\ new[i] = new[j]
  \/ \E r \in rows, i \in DOMAIN new : QuestKey(r) = new[i]

(* The rows an insert of the keys in new adds, ids taken from first on. *)
Inserted(new, first) ==
  [i \in DOMAIN new |-> QuestRow(first + i - 1, new[i][1], new[i][2], new[i][3])]

CurrentPointsForgotten(data) == 0
(* progress?.points || 0 *)
CurrentPoints(data) == IF data = {} THEN 0 ELSE TheRow(data).points

NewPointsTaken(current, n) == current - n
(* points: currentPoints + points *)
NewPoints(current, n) == current + n

(* A request is answered, or fails in transport and changes nothing. *)
Responses == IF faultBudget > 0 THEN {"ok", "failed"} ELSE {"ok"}

Spend(resp) == faultBudget' = IF resp = "failed" THEN faultBudget - 1 ELSE faultBudget

Idle ==
  [pc |-> "idle", idx |-> 0, word |-> "", wordIds |-> <<>>, points |-> 0,
   existing |-> {}, current |-> 0]

Snapshot(q, p) == [quests |-> q, progress |-> p]

(* The log entry of a call that begins now. *)
Began(c, op, w, ids, n, faulted) ==
  [caller |-> c, op |-> op, word |-> w, wordIds |-> ids, points |-> n,
   began |-> clock + 1, ended |-> 0, outcome |-> "running", faulted |-> faulted,
   before |-> Snapshot(quests, progress), after |-> Snapshot(quests, progress),
   returned |-> <<>>]

(* The call of caller c returns or throws; q and p are the tables it leaves. *)
Ends(c, outcome, faulted, ret, q, p) ==
  /\ log' = [log EXCEPT ![inFlight[c].idx] =
               [@ EXCEPT !.ended = clock + 1, !.outcome = outcome,
                         !.faulted = @ \/ faulted, !.after = Snapshot(q, p),
                         !.returned = ret]]
  /\ inFlight' = [inFlight EXCEPT ![c] = Idle]
  /\ clock' = clock + 1

Continues(c, faulted) ==
  /\ log' = [log EXCEPT ![inFlight[c].idx].faulted = @ \/ faulted]
  /\ clock' = clock

QuestInit ==
  /\ GameInit
  /\ AppParked
  /\ LibParked
  /\ variant = "typed"
  /\ wordEntries = <<>>
  /\ quests \in { ForeignQuests \cup t : t \in SUBSET TargetQuests }
  /\ progress = ForeignProgress
  /\ studentRows = {}
  /\ nextId = 5
  /\ inFlight = [c \in Callers |-> Idle]
  /\ clock = 0
  /\ log = <<>>
  /\ faultBudget = MaxFaults

PointsInit ==
  /\ GameInit
  /\ AppParked
  /\ LibParked
  /\ variant = "typed"
  /\ wordEntries = <<>>
  /\ quests = ForeignQuests
  /\ progress \in { ForeignProgress \cup t : t \in TargetProgress }
  /\ studentRows = {}
  /\ nextId = 5
  /\ inFlight = [c \in Callers |-> Idle]
  /\ clock = 0
  /\ log = <<>>
  /\ faultBudget = MaxFaults

(* toggleDailyQuestWord: the select; its error is not looked at. *)
ToggleSelect(c) ==
  /\ inFlight[c].pc = "idle"
  /\ Len(log) < MaxCalls
  /\ \E w \in WordIds, resp \in Responses :
       LET existing == IF resp = "ok"
                       THEN Single(QuestsWhere(quests, TargetStudent, w, TargetDate))
                       ELSE {}
       IN /\ inFlight' = [inFlight EXCEPT ![c] =
                         [Idle EXCEPT !.pc = "toggle_write", !.idx = Len(log) + 1,
                                      !.word = w, !.existing = existing]]
          /\ log' = Append(log, Began(c, "toggle", w, <<>>, 0, resp = "failed"))
          /\ Spend(resp)
  /\ clock' = clock + 1
  /\ UNCHANGED <<offStore, quests, progress, nextId, studentRows>>

(* toggleDailyQuestWord, if (existing): delete the row found, by its id. *)
ToggleDelete(c) ==
  /\ inFlight[c].pc = "toggle_write"
  /\ inFlight[c].existing # {}
  /\ \E resp \in Responses :
       LET q == IF resp = "ok"
                THEN DeleteById(quests, TheRow(inFlight[c].existing).id)
                ELSE quests
       IN /\ quests' = q
          /\ Ends(c, IF resp = "ok" THEN "returned" ELSE "thrown", resp = "failed",
                  <<>>, q, progress)
          /\ Spend(resp)
  /\ UNCHANGED <<offStore, progress, nextId, studentRows>>

(* toggleDailyQuestWord, else: insert the row. *)
ToggleInsert(c) ==
  /\ inFlight[c].pc = "toggle_write"
  /\ inFlight[c].existing = {}
  /\ \E resp \in Responses :
       LET new == << <<TargetStudent, inFlight[c].word, TargetDate>> >>
           applied == resp = "ok" /\ ~UniqueViolation(quests, new)
           q == IF applied THEN quests \cup Range(Inserted(new, nextId)) ELSE quests
       IN /\ quests' = q
          /\ nextId' = IF applied THEN nextId + Len(new) ELSE nextId
          /\ Ends(c, IF applied THEN "returned" ELSE "thrown", resp = "failed",
                  <<>>, q, progress)
          /\ Spend(resp)
  /\ UNCHANGED <<offStore, progress, studentRows>>

(* assignWordsToDailyQuest: remove the quests of the date; the result of   *)
(* the delete is not looked at.                                            *)
AssignDelete(c) ==
  /\ inFlight[c].pc = "idle"
  /\ Len(log) < MaxCalls
  /\ \E ids \in WordIdLists, resp \in Responses :
       /\ quests' = IF resp = "ok"
                    THEN DeleteWhere(quests, TargetStudent, TargetDate)
                    ELSE quests
       /\ inFlight' = [inFlight EXCEPT ![c] =
                      [Idle EXCEPT !.pc = "assign_insert", !.idx = Len(log) + 1,
                                   !.wordIds = ids]]
       /\ log' = Append(log, Began(c, "assign", "", ids, 0, resp = "failed"))
       /\ Spend(resp)
  /\ clock' = clock + 1
  /\ UNCHANGED <<offStore, progress, nextId, studentRows>>

(* assignWordsToDailyQuest: insert one quest per word id, return the rows. *)
AssignInsert(c) ==
  /\ inFlight[c].pc = "assign_insert"
  /\ \E resp \in Responses :
       LET ids == inFlight[c].wordIds
           new == [i \in DOMAIN ids |-> <<TargetStudent, ids[i], TargetDate>>]
           applied == resp = "ok" /\ ~UniqueViolation(quests, new)
           data == IF applied THEN Inserted(new, nextId) ELSE <<>>
           q == quests \cup Range(data)
       IN /\ quests' = q
          /\ nextId' = nextId + Len(data)
          /\ Ends(c, IF applied THEN "returned" ELSE "thrown", resp = "failed",
                  data, q, progress)
          /\ Spend(resp)
  /\ UNCHANGED <<offStore, progress, studentRows>>

ProgressWhere(rows, s) == { r \in rows : r.student_id = s }

(* addPointsToStudent: getStudentProgress; no row is null, any other error *)
(* is thrown.                                                              *)
AddGet(c) ==
  /\ inFlight[c].pc = "idle"
  /\ Len(log) < MaxCalls
  /\ \E n \in PointIncrements, resp \in Responses :
       LET e == Began(c, "add", "", <<>>, n, resp = "failed")
       IN /\ IF resp = "ok"
             THEN /\ inFlight' = [inFlight EXCEPT ![c] =
                                 [Idle EXCEPT !.pc = "add_select", !.idx = Len(log) + 1,
                                              !.points = n,
                                              !.current = CurrentPoints(
                                                Single(ProgressWhere(progress, TargetStudent)))]]
                  /\ log' = Append(log, e)
                  /\ clock' = clock + 1
             ELSE /\ inFlight' = inFlight
                  /\ log' = Append(log, [e EXCEPT !.ended = clock + 2, !.outcome = "thrown"])
                  /\ clock' = clock + 2
          /\ Spend(resp)
  /\ UNCHANGED <<offStore, quests, progress, nextId, studentRows>>

(* updateStudentProgress: look for the row; the error is not looked at. *)
AddSelect(c) ==
  /\ inFlight[c].pc = "add_select"
  /\ \E resp \in Responses :
       /\ inFlight' = [inFlight EXCEPT ![c].pc = "add_write",
                                 ![c].existing =
                                    IF resp = "ok"
                                    THEN Single(ProgressWhere(progress, TargetStudent))
                                    ELSE {}]
       /\ Continues(c, resp = "failed")
       /\ Spend(resp)
  /\ UNCHANGED <<offStore, quests, progress, nextId, studentRows>>

(* updateStudentProgress, if (existing): update the row of the student;    *)
(* .single() on the result throws when no row was updated.                 *)
AddUpdate(c) ==
  /\ inFlight[c].pc = "add_write"
  /\ inFlight[c].existing # {}
  /\ \E resp \in Responses :
       LET applied == resp = "ok" /\ Cardinality(ProgressWhere(progress, TargetStudent)) = 1
           np == NewPoints(inFlight[c].current, inFlight[c].points)
           p == IF resp = "ok"
                THEN { IF r.student_id = TargetStudent THEN [r EXCEPT !.points = np] ELSE r :
                       r \in progress }
                ELSE progress
       IN /\ progress' = p
          /\ Ends(c, IF applied THEN "returned" ELSE "thrown", resp = "failed",
                  <<>>, quests, p)
          /\ Spend(resp)
  /\ UNCHANGED <<offStore, quests, nextId, studentRows>>

(* updateStudentProgress, else: insert a row; UNIQUE(student_id). *)
AddInsert(c) ==
  /\ inFlight[c].pc = "add_write"
  /\ inFlight[c].existing = {}
  /\ \E resp \in Responses :
       LET applied == resp = "ok" /\ ProgressWhere(progress, TargetStudent) = {}
           np == NewPoints(inFlight[c].current, inFlight[c].points)
           p == IF applied THEN progress \cup {ProgressRow(TargetStudent, np)} ELSE progress
       IN /\ progress' = p
          /\ Ends(c, IF applied THEN "returned" ELSE "thrown", resp = "failed",
                  <<>>, quests, p)
          /\ Spend(resp)
  /\ UNCHANGED <<offStore, quests, nextId, studentRows>>

QuestNext ==
  \/ \E c \in Callers : ToggleSelect(c)
  \/ \E c \in Callers : ToggleDelete(c)
  \/ \E c \in Callers : ToggleInsert(c)
  \/ \E c \in Callers : AssignDelete(c)
  \/ \E c \in Callers : AssignInsert(c)

QuestSpec == QuestInit /\ [][QuestNext]_vars

PointsNext ==
  \/ \E c \in Callers : AddGet(c)
  \/ \E c \in Callers : AddSelect(c)
  \/ \E c \in Callers : AddUpdate(c)
  \/ \E c \in Callers : AddInsert(c)

PointsSpec == PointsInit /\ [][PointsNext]_vars

----------------------------------------------------------------------------
(* Properties of the repository calls *)

Ended(e) == e.outcome # "running"

(* The time the call of entry e ends, the next tick while it runs. *)
EndOf(e, now) == IF Ended(e) THEN e.ended ELSE now + 1

(* The calls of entries i and j of l were in flight at one time. *)
Overlap(l, now, i, j) ==
  l[i].began < EndOf(l[j], now) /\ l[j].began < EndOf(l[i], now)

(* No other call was in flight while the call of entry i was. *)
Alone(l, now, i) == \A k \in DOMAIN l : k # i => ~Overlap(l, now, i, k)

Assigned(snapshot, w) ==
  QuestsWhere(snapshot.quests, TargetStudent, w, TargetDate) # {}

(* Entries i and j are two toggles of one word that returned, the second   *)
(* begun after the first ended, and no other call in flight from the begin *)
(* of the first to the end of the second.                                  *)
ToggledTwice(i, j) ==
  /\ log[i].op = "toggle" /\ log[j].op = "toggle"
  /\ log[i].word = log[j].word
  /\ log[i].outcome = "returned" /\ log[j].outcome = "returned"
  /\ log[i].ended < log[j].began
  /\ \A k \in DOMAIN log \ {i, j} :
       ~(log[k].began < log[j].ended /\ log[i].began < EndOf(log[k], clock))

(* C16: two calls of toggleDailyQuestWord for one (student, word, date) in *)
(* immediate succession, nothing else in between, leave the word assigned  *)
(* if it was assigned before the first and unassigned if it was not.       *)
C16_ToggleTwiceRestores ==
  \A i, j \in DOMAIN log :
    ToggledTwice(i, j) =>
      Assigned(log[j].after, log[i].word) = Assigned(log[i].before, log[i].word)

C16_Witness ==
  \E i, j \in DOMAIN log :
    /\ ToggledTwice(i, j)
    /\ ~Assigned(log[i].before, log[i].word)
    /\ Assigned(log[i].after, log[i].word)
    /\ ~Assigned(log[j].after, log[i].word)

(* The word ids assigned to the student for the date in a snapshot. *)
AssignedWordIds(snapshot) ==
  { r.word_id : r \in { q \in snapshot.quests :
                          q.student_id = TargetStudent /\ q.quest_date = TargetDate } }

(* C17: when assignWordsToDailyQuest(student, wordIds, date) has returned, *)
(* the words assigned to the student for the date are exactly wordIds,     *)
(* whatever was assigned before, and the list returned has one row per id  *)
(* (none for an empty wordIds).  Stated for calls no other call overlaps.  *)
C17_AssignReplaces ==
  \A i \in DOMAIN log :
    (log[i].op = "assign" /\ log[i].outcome = "returned" /\ Alone(log, clock, i)) =>
      /\ AssignedWordIds(log[i].after) = Range(log[i].wordIds)
      /\ Len(log[i].returned) = Len(log[i].wordIds)
      /\ \A k \in DOMAIN log[i].returned :
           log[i].returned[k].word_id = log[i].wordIds[k]

(* The same for calls none of whose requests failed in transport. *)
AssignReplacesUnlessFailed ==
  \A i \in DOMAIN log :
    (log[i].op = "assign" /\ log[i].outcome = "returned" /\ Alone(log, clock, i)
     /\ ~log[i].faulted) =>
      /\ AssignedWordIds(log[i].after) = Range(log[i].wordIds)
      /\ Len(log[i].returned) = Len(log[i].wordIds)

(* C18: whatever way concurrent toggleDailyQuestWord and                   *)
(* assignWordsToDailyQuest calls interleave, the table never holds two     *)
(* rows for one (student, word, date): after a race of two toggles the     *)
(* word is assigned once or not at all.                                    *)
C18_OneRowPerKey ==
  \A r1, r2 \in quests : QuestKey(r1) = QuestKey(r2) => r1 = r2

(* Two toggles of one word both found it unassigned; one insert was        *)
(* refused by the constraint and the word is assigned once.                *)
C18_Witness ==
  \E i, j \in DOMAIN log :
    /\ i # j
    /\ log[i].op = "toggle" /\ log[j].op = "toggle"
    /\ log[i].word = log[j].word
    /\ Overlap(log, clock, i, j)
    /\ log[i].outcome = "returned"
    /\ log[j].outcome = "thrown" /\ ~log[j].faulted
    /\ ~Assigned(log[i].before, log[i].word)
    /\ Cardinality(QuestsWhere(quests, TargetStudent, log[i].word, TargetDate)) = 1

(* The points stored for the student in a progress table, 0 without a row. *)
StoredPoints(rows) ==
  IF ProgressWhere(rows, TargetStudent) = {}
  THEN 0
  ELSE TheRow(ProgressWhere(rows, TargetStudent)).points

(* Entries i and j are two addPointsToStudent calls that overlap each      *)
(* other and no third call; i began first, both have ended, and no         *)
(* request of either failed in transport.                                  *)
AddedTogether(i, j) ==
  /\ i < j
  /\ log[i].op = "add" /\ log[j].op = "add"
  /\ Ended(log[i]) /\ Ended(log[j])
  /\ ~log[i].faulted /\ ~log[j].faulted
  /\ Overlap(log, clock, i, j)
  /\ \A k \in DOMAIN log \ {i, j} :
       ~Overlap(log, clock, i, k) /\ ~Overlap(log, clock, j, k)

(* The table as the later of the two calls to end left it. *)
LeftBy(i, j) == IF log[i].ended > log[j].ended THEN log[i].after ELSE log[j].after

(* C19: addPointsToStudent(s, n) that overlaps no other call leaves the    *)
(* stored points at the previous value (0 without a row) plus n; two       *)
(* overlapping calls adding a and b leave previous + a + b, or, an update  *)
(* lost, previous + a or previous + b, and no other value.                 *)
C19_AddPoints ==
  /\ \A i \in DOMAIN log :
       (log[i].op = "add" /\ Ended(log[i]) /\ ~log[i].faulted /\ Alone(log, clock, i)) =>
         /\ log[i].outcome = "returned"
         /\ StoredPoints(log[i].after.progress) =
              StoredPoints(log[i].before.progress) + log[i].points
  /\ \A i, j \in DOMAIN log :
       AddedTogether(i, j) =>
         LET previous == StoredPoints(log[i].before.progress)
             a == log[i].points
             b == log[j].points
         IN StoredPoints(LeftBy(i, j).progress) \in
              {previous + a + b, previous + a, previous + b}

(* An update is lost on a student without a row: two overlapping calls    *)
(* both return, both add more than 0, and only the points of one of them  *)
(* are in the value left.                                                  *)
C19_Witness ==
  \E i, j \in DOMAIN log :
    /\ AddedTogether(i, j)
    /\ log[i].outcome = "returned" /\ log[j].outcome = "returned"
    /\ log[i].points > 0 /\ log[j].points > 0
    /\ ProgressWhere(log[i].before.progress, TargetStudent) = {}
    /\ StoredPoints(LeftBy(i, j).progress) = log[i].points

(* The write of the addPointsToStudent call of caller c is committed in    *)
(* this step.                                                              *)
Writes(c) ==
  /\ inFlight[c].pc = "add_write"
  /\ inFlight'[c].pc = "idle"
  /\ log'[inFlight[c].idx].outcome = "returned"

C21_FailedRequestThrows ==
  \A i \in DOMAIN log :
    (Ended(log[i]) /\ log[i].faulted) => log[i].outcome = "thrown"

----------------------------------------------------------------------------
(* Part 3: the App component, src/App.tsx *)

MaxPending == 2
MaxToggles == 2
MaxPlayed == 1

Students == {"s1", "s2"}
NoStudent == "none"
NoDaily == [student |-> NoStudent, ids |-> <<>>]

(* wordResults of a finished session, and the points it reports *)
SessionResults ==
  { <<>>,
    << [wordId |-> "w1", correct |-> TRUE] >>,
    << [wordId |-> "w1", correct |-> FALSE], [wordId |-> "w2", correct |-> TRUE] >> }
SessionPoints == {0, 210}
ActivityTypes == {"spelling_snake", "spelling_bee"}

RECURSIVE WordIdsById(_)
WordIdsById(rows) ==
  IF rows = {} THEN <<>>
  ELSE LET r == CHOOSE x \in rows : \A y \in rows : x.id <= y.id
       IN <<r.word_id>> \o WordIdsById(rows \ {r})

(* getDailyQuestWordIds(studentId): the word ids of today's quests *)
getDailyQuestWordIds(rows, s) ==
  WordIdsById({ r \in rows : r.student_id = s /\ r.quest_date = TargetDate })

Includes(ids, w) == \E i \in DOMAIN ids : ids[i] = w

Filter(ids, w) == SelectSeq(ids, LAMBDA x : x # w)

(* toggleDailyWord, the update made at once: isDaily ? filter : append *)
OptimisticToggle(ids, w) == IF Includes(ids, w) THEN Filter(ids, w) ELSE Append(ids, w)

(* toggleDailyWord, the update made in catch: isDaily ? append : filter *)
RevertToggle(ids, w) == IF Includes(ids, w) THEN Append(ids, w) ELSE Filter(ids, w)

studentView == <<appRole, studentEnteredName, loadingStudent, currentStudentId,
                 dailyWordIds, appPoints, refreshes>>
tutorView == <<students, selectedStudentId, toggles>>
ledgerView == <<saves, ledger, sessions>>

(* An id no row of the table has (uuid_generate_v4). *)
FreshId(rows) == CHOOSE n \in 1..(Cardinality(rows) + 1) : \A r \in rows : r.id # n

WithoutAt(s, i) == [k \in 1..(Len(s) - 1) |-> IF k < i THEN s[k] ELSE s[k + 1]]

AppInit ==
  /\ GameInit
  /\ variant = "typed"
  /\ wordEntries = <<>>
  /\ LibParked
  /\ quests \in { ForeignQuests \cup t : t \in SUBSET TargetQuests }
  /\ progress = ForeignProgress
  /\ studentRows = {}
  /\ nextId = 5
  /\ inFlight = <<>>
  /\ clock = 0
  /\ log = <<>>
  /\ faultBudget = 0
  /\ appRole = "student"
  /\ studentEnteredName = FALSE
  /\ loadingStudent = NoStudent
  /\ currentStudentId = NoStudent
  /\ dailyWordIds = NoDaily
  /\ appPoints = 0
  /\ refreshes = <<>>
  /\ students = [s \in Students |-> getDailyQuestWordIds(quests, s)]
  /\ selectedStudentId = NoStudent
  /\ toggles = <<>>
  /\ saves = <<>>
  /\ ledger = <<>>
  /\ sessions = <<>>

(* The cleanup of the refresh effect: let cancelled = true. *)
Cancelled(rs) == [i \in DOMAIN rs |-> [rs[i] EXCEPT !.cancelled = TRUE]]

Refresh(kind, s) == [kind |-> kind, student |-> s, cancelled |-> FALSE]

(* handleStudentNameSubmit up to its first await *)
NameSubmit ==
  /\ appRole = "student"
  /\ ~studentEnteredName
  /\ loadingStudent = NoStudent
  /\ \E s \in Students : loadingStudent' = s
  /\ UNCHANGED <<gameVars, storeVars, libVars, tutorView, ledgerView, appRole,
                 studentEnteredName, currentStudentId, dailyWordIds, appPoints,
                 refreshes>>

(* handleStudentNameSubmit after its awaits: the state of the student is  *)
(* set, or the catch branch runs; the refresh effect runs when             *)
(* currentStudentId has changed and the role is student.                   *)
NameLoaded ==
  /\ loadingStudent # NoStudent
  /\ \E ok \in BOOLEAN :
       IF ok
       THEN /\ dailyWordIds' = [student |-> loadingStudent,
                                ids |-> getDailyQuestWordIds(quests, loadingStudent)]
            /\ appPoints' = CurrentPoints(Single(ProgressWhere(progress, loadingStudent)))
            /\ currentStudentId' = loadingStudent
            /\ refreshes' =
                 IF currentStudentId = loadingStudent THEN refreshes
                 ELSE IF appRole = "student" /\ Len(refreshes) < MaxPending
                      THEN Append(Cancelled(refreshes), Refresh("entry", loadingStudent))
                      ELSE Cancelled(refreshes)
       ELSE /\ dailyWordIds' = NoDaily
            /\ UNCHANGED <<appPoints, currentStudentId, refreshes>>
  /\ studentEnteredName' = TRUE
  /\ loadingStudent' = NoStudent
  /\ UNCHANGED <<gameVars, storeVars, libVars, tutorView, ledgerView, appRole>>

(* The window gets the focus while the focus effect has its listener on. *)
WindowFocus ==
  /\ appRole = "student"
  /\ currentStudentId # NoStudent
  /\ Len(refreshes) < MaxPending
  /\ refreshes' = Append(refreshes, Refresh("focus", currentStudentId))
  /\ UNCHANGED <<gameVars, storeVars, libVars, tutorView, ledgerView, appRole,
                 studentEnteredName, loadingStudent, currentStudentId, dailyWordIds,
                 appPoints>>

(* A daily quest request is answered.  The refresh effect tests its        *)
(* cancelled flag, the focus listener sets the state whenever it gets ids. *)
RefreshAnswered ==
  \E i \in DOMAIN refreshes, ok \in BOOLEAN :
    LET r == refreshes[i]
    IN /\ refreshes' = WithoutAt(refreshes, i)
       /\ dailyWordIds' =
            IF ok /\ (r.kind = "focus" \/ ~r.cancelled)
            THEN [student |-> r.student, ids |-> getDailyQuestWordIds(quests, r.student)]
            ELSE dailyWordIds
       /\ UNCHANGED <<gameVars, storeVars, libVars, tutorView, ledgerView, appRole,
                      studentEnteredName, loadingStudent, currentStudentId,
                      appPoints>>

(* toggleRole *)
ToggleRole ==
  /\ IF appRole = "tutor"
     THEN /\ appRole' = "student"
          /\ studentEnteredName' = FALSE
          /\ currentStudentId' = NoStudent
          /\ selectedStudentId' = NoStudent
          /\ dailyWordIds' = NoDaily
          /\ appPoints' = 0
          /\ UNCHANGED refreshes
     ELSE /\ appRole' = "tutor"
          /\ refreshes' = Cancelled(refreshes)
          /\ UNCHANGED <<studentEnteredName, currentStudentId, selectedStudentId,
                         dailyWordIds, appPoints>>
  /\ UNCHANGED <<gameVars, storeVars, libVars, ledgerView, loadingStudent,
                 students, toggles>>

(* selectStudent *)
SelectStudent ==
  /\ appRole = "tutor"
  /\ \E s \in Students : s # selectedStudentId /\ selectedStudentId' = s
  /\ UNCHANGED <<gameVars, storeVars, libVars, studentView, ledgerView, students,
                 toggles>>

(* toggleDailyWord up to its await; clock counts the calls made. *)
ToggleDailyWord ==
  /\ appRole = "tutor"
  /\ selectedStudentId # NoStudent
  /\ Len(toggles) < MaxPending
  /\ clock < MaxToggles
  /\ clock' = clock + 1
  /\ \E w \in WordIds :
       /\ students' = [students EXCEPT ![selectedStudentId] = OptimisticToggle(@, w)]
       /\ toggles' = Append(toggles, [student |-> selectedStudentId, word |-> w,
                                      before |-> students[selectedStudentId]])
  /\ UNCHANGED <<gameVars, libVars, studentView, ledgerView, selectedStudentId,
                 quests, progress, nextId, studentRows, inFlight, log, faultBudget>>

(* toggleDailyQuestWord has toggled the word and toggleDailyWord returns. *)
ToggleSaved ==
  \E i \in DOMAIN toggles :
    LET t == toggles[i]
        found == QuestsWhere(quests, t.student, t.word, TargetDate)
    IN /\ toggles' = WithoutAt(toggles, i)
       /\ quests' = IF found # {}
                    THEN DeleteById(quests, TheRow(found).id)
                    ELSE quests \cup {QuestRow(FreshId(quests), t.student, t.word, TargetDate)}
       /\ UNCHANGED <<gameVars, libVars, studentView, ledgerView, students,
                      selectedStudentId, progress, nextId, studentRows, inFlight, clock, log,
                      faultBudget>>

(* toggleDailyQuestWord has thrown: the catch branch of toggleDailyWord. *)
ToggleFailed ==
  \E i \in DOMAIN toggles :
    LET t == toggles[i]
    IN /\ toggles' = WithoutAt(toggles, i)
       /\ students' = [students EXCEPT ![t.student] = RevertToggle(@, t.word)]
       /\ UNCHANGED <<gameVars, storeVars, libVars, studentView, ledgerView,
                      selectedStudentId>>

(* A spelling modal calls onFinish: StudentDashboard passes the points and *)
(* the word results to onCompleteExercise, which takes the points only.    *)
SessionFinish ==
  /\ appRole = "student"
  /\ studentEnteredName
  /\ Len(sessions) < MaxPlayed
  /\ \E rs \in SessionResults, pts \in SessionPoints, act \in ActivityTypes :
       /\ appPoints' = appPoints + pts
       /\ saves' = IF currentStudentId # NoStudent
                   THEN Append(saves, [student |-> currentStudentId, points |-> pts])
                   ELSE saves
       /\ sessions' = Append(sessions, [student |-> currentStudentId, finished |-> TRUE,
                                        wordResults |-> rs, activityType |-> act])
  /\ UNCHANGED <<gameVars, storeVars, libVars, tutorView, appRole, studentEnteredName,
                 loadingStudent, currentStudentId, dailyWordIds, refreshes, ledger>>

(* A spelling modal is closed without finishing: onClose hides it. *)
SessionClose ==
  /\ appRole = "student"
  /\ studentEnteredName
  /\ Len(sessions) < MaxPlayed
  /\ sessions' = Append(sessions, [student |-> currentStudentId, finished |-> FALSE,
                                   wordResults |-> <<>>, activityType |-> "none"])
  /\ UNCHANGED <<gameVars, storeVars, libVars, studentView, tutorView, saves, ledger>>

(* addPointsToStudent of onCompleteExercise has returned or thrown. *)
PointsSaved ==
  \E i \in DOMAIN saves, ok \in BOOLEAN :
    LET sv == saves[i]
        row == ProgressWhere(progress, sv.student)
        np == NewPoints(CurrentPoints(Single(row)), sv.points)
    IN /\ saves' = WithoutAt(saves, i)
       /\ progress' = IF ok
                      THEN (progress \ row) \cup {ProgressRow(sv.student, np)}
                      ELSE progress
       /\ UNCHANGED <<gameVars, libVars, studentView, tutorView, ledger, sessions,
                      quests, nextId, studentRows, inFlight, clock, log, faultBudget>>

(* The three concerns of the component share the role and the student    *)
(* only, and are explored one at a time.                                 *)
RefreshNext ==
  \/ NameSubmit
  \/ NameLoaded
  \/ WindowFocus
  \/ RefreshAnswered
  \/ ToggleRole

RefreshSpec == AppInit /\ [][RefreshNext]_vars

TutorNext ==
  \/ ToggleRole
  \/ SelectStudent
  \/ ToggleDailyWord
  \/ ToggleSaved
  \/ ToggleFailed

TutorSpec == AppInit /\ [][TutorNext]_vars

(* The ids addWord returns for the rows Quick Add inserts (uuid_generate_v4). *)
NewWordIds == {"w3", "w4"}

(* toggleDailyQuestWord(studentId, wordId) on today's rows of the table *)
toggleDailyQuestWord(rows, s, w) ==
  LET found == QuestsWhere(rows, s, w, TargetDate)
  IN IF found # {}
     THEN DeleteById(rows, TheRow(found).id)
     ELSE rows \cup {QuestRow(FreshId(rows), s, w, TargetDate)}

(* handleAddWord with addToDailyByDefault on, through addWord and          *)
(* getAllWords up to the await of toggleDailyQuestWord(studentId, id).     *)
(* inFlight holds the handlers waiting there, log those which have ended.  *)
QuickAddWord ==
  /\ appRole = "tutor"
  /\ selectedStudentId # NoStudent
  /\ Len(inFlight) < MaxPending
  /\ clock < MaxToggles
  /\ clock' = clock + 1
  /\ \E w \in NewWordIds :
       /\ \A i \in DOMAIN inFlight : inFlight[i].word # w
       /\ \A i \in DOMAIN log : log[i].word # w
       /\ inFlight' = Append(inFlight, [student |-> selectedStudentId, word |-> w])
  /\ UNCHANGED <<gameVars, libVars, appVars, quests, progress, nextId, studentRows, log,
                 faultBudget>>

(* handleAddWord after that await: the word is pinned in the table or the  *)
(* call has thrown; either branch calls onToggleDaily(id), which is        *)
(* toggleDailyWord of the render the handler was made in, and that goes up *)
(* to its own await.  onRefetchDailyQuest is not passed by App.            *)
QuickAddPinned ==
  \E i \in DOMAIN inFlight, ok \in BOOLEAN :
    LET a == inFlight[i]
    IN /\ inFlight' = WithoutAt(inFlight, i)
       /\ quests' = IF ok THEN toggleDailyQuestWord(quests, a.student, a.word) ELSE quests
       /\ students' = [students EXCEPT ![a.student] = OptimisticToggle(@, a.word)]
       /\ toggles' = Append(toggles, [student |-> a.student, word |-> a.word,
                                      before |-> students[a.student]])
       /\ log' = Append(log, [student |-> a.student, word |-> a.word, pinned |-> ok])
       /\ UNCHANGED <<gameVars, libVars, studentView, ledgerView, selectedStudentId,
                      progress, nextId, studentRows, clock, faultBudget>>

QuickAddNext ==
  \/ ToggleRole
  \/ SelectStudent
  \/ QuickAddWord
  \/ QuickAddPinned
  \/ ToggleSaved
  \/ ToggleFailed

QuickAddSpec == AppInit /\ [][QuickAddNext]_vars

(* Names are sequences of characters; what is typed into the name form. *)
NameInputs == { <<"a">>, <<"A", " ">>, <<" ">>, <<"b">>, <<" ", "B">> }

MaxSubmits == 2

(* The browsers the app runs in; each has its own App component. *)
Clients == {"c1", "c2"}

StudentRow(id, name) == [id |-> id, name |-> name]

NoEntry == [pc |-> "idle", name |-> <<>>, student |-> 0]

(* allStudents.find(s => s.name.toLowerCase() === name.trim().toLowerCase()) *)
NamedLike(rows, name) ==
  { r \in rows : toLowerCase(r.name) = toLowerCase(trim(name)) }

EntryInit ==
  /\ GameInit
  /\ AppParked
  /\ LibParked
  /\ variant = "typed"
  /\ wordEntries = <<>>
  /\ quests = {}
  /\ progress = {}
  /\ nextId = 1
  /\ studentRows \in { {}, {StudentRow(1, <<"A">>)} }
  /\ inFlight = [c \in Clients |-> NoEntry]
  /\ clock = 0
  /\ log = <<>>
  /\ faultBudget = 0

(* handleStudentNameSubmit up to the await of getAllStudents; the form is *)
(* disabled while loadingStudent is set.  clock counts the submissions.   *)
SubmitName(c) ==
  /\ inFlight[c].pc = "idle"
  /\ clock < MaxSubmits
  /\ clock' = clock + 1
  /\ \E n \in NameInputs :
       /\ trim(n) # <<>>
       /\ inFlight' = [inFlight EXCEPT ![c] = [pc |-> "listing", name |-> n,
                                               student |-> 0]]
  /\ UNCHANGED <<offStore, quests, progress, nextId, studentRows, log, faultBudget>>

(* getAllStudents has answered: the student of that name is taken, or     *)
(* addStudent is called; a rejection goes to the catch branch.  The loads *)
(* that follow a found student change no table.                           *)
StudentsListed(c) ==
  /\ inFlight[c].pc = "listing"
  /\ \E ok \in BOOLEAN :
       LET found == NamedLike(studentRows, inFlight[c].name)
       IN IF ~ok
          THEN /\ inFlight' = [inFlight EXCEPT ![c].pc = "entered"]
               /\ UNCHANGED log
          ELSE IF found # {}
          THEN \E r \in found :
                 /\ inFlight' = [inFlight EXCEPT ![c].pc = "entered",
                                                 ![c].student = r.id]
                 /\ log' = Append(log, [client |-> c, name |-> inFlight[c].name,
                                        student |-> r.id, created |-> FALSE])
          ELSE /\ inFlight' = [inFlight EXCEPT ![c].pc = "adding"]
               /\ UNCHANGED log
  /\ UNCHANGED <<offStore, quests, progress, nextId, studentRows, clock, faultBudget>>

(* addStudent(name.trim()) has inserted its row, or has thrown. *)
StudentAdded(c) ==
  /\ inFlight[c].pc = "adding"
  /\ \E ok \in BOOLEAN :
       LET row == StudentRow(FreshId(studentRows), trim(inFlight[c].name))
       IN IF ok
          THEN /\ studentRows' = studentRows \cup {row}
               /\ inFlight' = [inFlight EXCEPT ![c].pc = "entered",
                                               ![c].student = row.id]
               /\ log' = Append(log, [client |-> c, name |-> inFlight[c].name,
                                      student |-> row.id, created |-> TRUE])
          ELSE /\ inFlight' = [inFlight EXCEPT ![c].pc = "entered"]
               /\ UNCHANGED <<studentRows, log>>
  /\ UNCHANGED <<offStore, quests, progress, nextId, clock, faultBudget>>

(* toggleRole to tutor and back: the name form is shown again. *)
LeaveEntry(c) ==
  /\ inFlight[c].pc = "entered"
  /\ inFlight' = [inFlight EXCEPT ![c] = NoEntry]
  /\ UNCHANGED <<offStore, quests, progress, nextId, studentRows, clock, log,
                 faultBudget>>

EntryNext ==
  \E c \in Clients :
    \/ SubmitName(c)
    \/ StudentsListed(c)
    \/ StudentAdded(c)
    \/ LeaveEntry(c)

EntrySpec == EntryInit /\ [][EntryNext]_vars

FinishNext ==
  \/ NameSubmit
  \/ NameLoaded
  \/ ToggleRole
  \/ SessionFinish
  \/ SessionClose
  \/ PointsSaved

FinishSpec == AppInit /\ [][FinishNext]_vars

(* ------------------------------------------------------------------ *)
(* Part 4: repository and gateway functions applied to their arguments, *)
(* src/lib/supabaseQueries.ts and src/geminiService.ts.  libInput holds *)
(* the function and its arguments, fetchPc its position, libOutput what *)
(* it returned or threw. *)

WORDS_PAGE_SIZE == 1000

(* The most rows the backend returns for one request (the PostgREST *)
(* default the pagination is written for). *)
ServerMaxRows == 1000

(* Numbers of rows of vocab_words.  word is UNIQUE, so order('word') is a *)
(* total order, and a row is modelled by its rank in it. *)
WordCounts == {0, 1, 999, 1000, 1001, 2000, 2001}

Min(a, b) == IF a <= b THEN a ELSE b

(* The rows of ranks a..b, ascending; empty when b < a. *)
Rows(a, b) == [k \in 1..(b - a + 1) |-> a + k - 1]

(* .order('word').range(from, to) on a table of n rows: the rows at the *)
(* offsets from..to, both included, of which the backend returns at most *)
(* ServerMaxRows. *)
RangeOfWords(n, from, to) ==
  Rows(from + 1, Min(Min(to + 1, n), from + ServerMaxRows))

PageTo(from) == from + WORDS_PAGE_SIZE - 1

NextFromOverlapping(from) == from + WORDS_PAGE_SIZE - 1
NextFrom(from) == from + WORDS_PAGE_SIZE

HasMore(page) == Len(page) = WORDS_PAGE_SIZE

Returned(v) == [outcome |-> "returned", value |-> v]
Thrown == [outcome |-> "thrown", value |-> "error"]

(* getAllWords up to its loop *)
GetAllWordsStart ==
  /\ libInput.fn = "getAllWords"
  /\ fetchPc = "idle"
  /\ libOutput = <<>>
  /\ fetchPc' = "loop"
  /\ pageFrom' = 0
  /\ fetched' = <<>>
  /\ UNCHANGED <<gameVars, storeVars, appVars, wordCount, libInput, libOutput>>

(* One round of the loop of getAllWords: a page is requested and either *)
(* the error is thrown or the page is pushed. *)
GetAllWordsPage ==
  /\ libInput.fn = "getAllWords"
  /\ fetchPc = "loop"
  /\ \E ok \in BOOLEAN :
       IF ~ok
       THEN /\ fetchPc' = "thrown"
            /\ libOutput' = Thrown
            /\ UNCHANGED <<pageFrom, fetched>>
       ELSE LET page == RangeOfWords(wordCount, pageFrom, PageTo(pageFrom))
            IN /\ fetched' = fetched \o page
               /\ pageFrom' = NextFrom(pageFrom)
               /\ fetchPc' = IF HasMore(page) THEN "loop" ELSE "returned"
               /\ libOutput' = IF HasMore(page) THEN libOutput ELSE Returned("all")
  /\ UNCHANGED <<gameVars, storeVars, appVars, wordCount, libInput>>

(* savePracticeRecords: the rows built from wordResults *)
PracticeRowsButLast(studentId, activityType, results, date) ==
  [k \in 1..(Len(results) - 1) |->
     [student |-> studentId, wordId |-> results[k].wordId, practice_date |-> date,
      activityType |-> activityType, correct |-> results[k].correct]]
PracticeRows(studentId, activityType, results, date) ==
  [k \in DOMAIN results |->
     [student |-> studentId, wordId |-> results[k].wordId, practice_date |-> date,
      activityType |-> activityType, correct |-> results[k].correct]]

(* A record the ledger holds before the call. *)
OldRecord ==
  [student |-> "s2", wordId |-> "w2", practice_date |-> "d0",
   activityType |-> "spelling_bee", correct |-> FALSE]

(* savePracticeRecords(studentId, activityType, wordResults) *)
SavePracticeRecords ==
  /\ libInput.fn = "savePracticeRecords"
  /\ fetchPc = "idle"
  /\ IF Len(libInput.wordResults) = 0
     THEN /\ fetchPc' = "returned"
          /\ libOutput' = Returned("void")
          /\ UNCHANGED ledger
     ELSE \E ok \in BOOLEAN :
            IF ok
            THEN /\ ledger' = ledger \o PracticeRows(libInput.studentId,
                                                     libInput.activityType,
                                                     libInput.wordResults, TargetDate)
                 /\ fetchPc' = "returned"
                 /\ libOutput' = Returned("void")
            ELSE /\ fetchPc' = "thrown"
                 /\ libOutput' = Thrown
                 /\ UNCHANGED ledger
  /\ UNCHANGED <<gameVars, storeVars, studentView, tutorView, saves, sessions,
                 wordCount, pageFrom, fetched, libInput>>

(* getStudentDailyQuestDates reads `limit * 5` rows. *)
DateRowFactor == 5

QuestLimits == {1, 2}

(* The quests of the student: counts[i] rows carry the i-th most recent *)
(* date.  A date is a number, a later date a larger one. *)
QuestCounts ==
  { <<>>, <<1>>, <<2, 1>>, <<1, 1, 1>>, <<5, 5, 1>>, <<10, 1>>, <<11, 2>> }

DateAt(counts, i) == Len(counts) - i + 1

(* .select('quest_date').eq(student).order('quest_date', descending) *)
RECURSIVE QuestDatesFrom(_, _)
QuestDatesFrom(counts, i) ==
  IF i > Len(counts) THEN <<>>
  ELSE [k \in 1..counts[i] |-> DateAt(counts, i)] \o QuestDatesFrom(counts, i + 1)

(* .limit(n) and slice(0, n) *)
Take(s, n) == SubSeq(s, 1, Min(n, Len(s)))

(* [...new Set(s)]: the first occurrence of each element, in order *)
RECURSIVE Distinct(_)
Distinct(s) ==
  IF s = <<>> THEN <<>>
  ELSE LET front == Distinct(SubSeq(s, 1, Len(s) - 1))
           last == s[Len(s)]
       IN IF \E i \in DOMAIN front : front[i] = last THEN front
          ELSE Append(front, last)

getStudentDailyQuestDates(counts, limit) ==
  Take(Distinct(Take(QuestDatesFrom(counts, 1), limit * DateRowFactor)), limit)

GetQuestDates ==
  /\ libInput.fn = "getStudentDailyQuestDates"
  /\ fetchPc = "idle"
  /\ \E ok \in BOOLEAN :
       IF ok
       THEN /\ fetchPc' = "returned"
            /\ libOutput' = Returned(getStudentDailyQuestDates(libInput.counts,
                                                                libInput.limit))
       ELSE /\ fetchPc' = "thrown"
            /\ libOutput' = Thrown
  /\ UNCHANGED <<gameVars, storeVars, appVars, wordCount, pageFrom, fetched, libInput>>

(* What the backend answers to .single(): the row, the error PGRST116 *)
(* when the number of rows is not one, or another error. *)
NoError == "none"
OtherErrors == {"PGRST301", "fetch failed"}

SingleResponses(rows) ==
  (IF Cardinality(rows) = 1
   THEN {[data |-> TheRow(rows), error |-> NoError]}
   ELSE {[data |-> Null, error |-> "PGRST116"]})
  \cup {[data |-> Null, error |-> e] : e \in OtherErrors}

(* if (error.code === 'PGRST116') return null *)
IsNotFoundAlways(error) == TRUE
IsNotFound(error) == error = "PGRST116"

(* getStudent and getStudentProgress after .single() *)
SingleResult(resp) ==
  IF resp.error # NoError
  THEN IF IsNotFound(resp.error) THEN Returned(Null) ELSE Thrown
  ELSE Returned(resp.data)

GetSingle ==
  /\ libInput.fn \in {"getStudent", "getStudentProgress"}
  /\ fetchPc = "idle"
  /\ \E resp \in SingleResponses(libInput.rows) :
       /\ fetched' = <<resp>>
       /\ libOutput' = SingleResult(resp)
       /\ fetchPc' = libOutput'.outcome
  /\ UNCHANGED <<gameVars, storeVars, appVars, wordCount, pageFrom, libInput>>

GatewayFns ==
  {"generateWordExplanation", "generateDailySpellingList", "generateQuizQuestions",
   "extractVocabularyFromFile"}

(* What generateContent gives: it rejects, or response.text is empty, is *)
(* not JSON, is the empty list, or is a filled result.  The service *)
(* rejects a request made without an API key. *)
ServiceResponses(apiKey) ==
  IF apiKey THEN {"rejected", "empty", "not json", "empty list", "filled"}
  ELSE {"rejected"}

(* JSON.parse(response.text || fallback): the fallback is parsed when the *)
(* text is empty, a text that is not JSON makes JSON.parse throw. *)
ParseOrFallback(resp, fallback) ==
  CASE resp = "rejected" -> Thrown
    [] resp = "not json" -> Thrown
    [] resp = "empty" -> Returned(fallback)
    [] resp = "empty list" -> Returned("[]")
    [] OTHER -> Returned("filled")

(* extractVocabularyFromFile after generateContent *)
ExtractResult(resp) ==
  IF resp = "filled" THEN Returned("filled") ELSE Thrown

(* A gateway function up to generateContent: only extractVocabularyFromFile *)
(* tests the API key and its input. *)
ThrowsBeforeRequest(fn, apiKey, inputEmpty) ==
  fn = "extractVocabularyFromFile" /\ (~apiKey \/ inputEmpty)

GatewayResult(fn, resp) ==
  CASE fn = "generateWordExplanation" -> ParseOrFallback(resp, "{}")
    [] fn = "generateDailySpellingList" -> ParseOrFallback(resp, "[]")
    [] fn = "generateQuizQuestions" -> ParseOrFallback(resp, "[]")
    [] OTHER -> ExtractResult(resp)

GatewayCall ==
  /\ libInput.fn \in GatewayFns
  /\ fetchPc = "idle"
  /\ IF ThrowsBeforeRequest(libInput.fn, libInput.apiKey, libInput.inputEmpty)
     THEN /\ libOutput' = Thrown
          /\ UNCHANGED fetched
     ELSE \E resp \in ServiceResponses(libInput.apiKey) :
            /\ fetched' = <<resp>>
            /\ libOutput' = GatewayResult(libInput.fn, resp)
  /\ fetchPc' = libOutput'.outcome
  /\ UNCHANGED <<gameVars, storeVars, appVars, wordCount, pageFrom, libInput>>

LibInputs ==
  {[fn |-> "getAllWords"]}
  \cup {[fn |-> "savePracticeRecords", studentId |-> "s1", activityType |-> a,
          wordResults |-> rs] : a \in ActivityTypes, rs \in SessionResults}
  \cup {[fn |-> "getStudentDailyQuestDates", counts |-> c, limit |-> l] :
          c \in QuestCounts, l \in QuestLimits}
  \cup {[fn |-> f, rows |-> rows] :
          f \in {"getStudent", "getStudentProgress"}, rows \in {{}, {"row"}}}
  \cup {[fn |-> f, apiKey |-> k, inputEmpty |-> e] :
          f \in GatewayFns, k \in BOOLEAN, e \in BOOLEAN}

LibInit ==
  /\ GameInit
  /\ variant = "typed"
  /\ wordEntries = <<>>
  /\ StoreParked
  /\ appRole = "student"
  /\ studentEnteredName = FALSE
  /\ loadingStudent = NoStudent
  /\ currentStudentId = NoStudent
  /\ dailyWordIds = NoDaily
  /\ appPoints = 0
  /\ refreshes = <<>>
  /\ students = <<>>
  /\ selectedStudentId = NoStudent
  /\ toggles = <<>>
  /\ saves = <<>>
  /\ sessions = <<>>
  /\ libInput \in LibInputs
  /\ ledger \in IF libInput.fn = "savePracticeRecords"
                THEN {<<>>, <<OldRecord>>} ELSE {<<>>}
  /\ wordCount \in IF libInput.fn = "getAllWords" THEN WordCounts ELSE {0}
  /\ pageFrom = 0
  /\ fetched = <<>>
  /\ fetchPc = "idle"
  /\ libOutput = <<>>

LibNext ==
  \/ GetAllWordsStart
  \/ GetAllWordsPage
  \/ SavePracticeRecords
  \/ GetQuestDates
  \/ GetSingle
  \/ GatewayCall

LibSpec == LibInit /\ [][LibNext]_vars

(* recognition.onresult applied to one result: what the recogniser heard, *)
(* as up to MaxHeard alternatives, for an expected letter.                *)
MaxHeard == 2

HeardTranscripts ==
  { <<"a">>, <<"S","e","e">>, <<"c","a","t">>, <<"4">>, <<" ">>,
    <<"C","o","n","s","t","r","u","c","t","o","r">> }

HeardInputs ==
  { [fn |-> "onresult", expected |-> e, isFinal |-> f, alternatives |-> a] :
      e \in {"A", "C", "T"}, f \in BOOLEAN,
      a \in UNION { [1..n -> HeardTranscripts] : n \in 1..MaxHeard } }

HeardInit ==
  /\ GameInit
  /\ variant = "voice"
  /\ wordEntries = <<>>
  /\ speechRecognitionAPI
  /\ StoreParked
  /\ AppParked
  /\ wordCount = 0
  /\ pageFrom = 0
  /\ fetched = <<>>
  /\ fetchPc = "idle"
  /\ libInput \in HeardInputs
  /\ libOutput = <<>>

(* The loop of onresult over e.results, here one result. *)
OnResultCandidate ==
  /\ libInput.fn = "onresult"
  /\ libOutput = <<>>
  /\ libOutput' = Returned(letterOfEvent(<< [isFinal |-> libInput.isFinal,
                                             alternatives |-> libInput.alternatives] >>,
                                         libInput.expected))
  /\ UNCHANGED <<gameVars, storeVars, appVars, wordCount, pageFrom, fetched, fetchPc,
                 libInput>>

HeardSpec == HeardInit /\ [][OnResultCandidate]_vars

(* ------------------------------------------------------------------ *)
(* Claims about the App component *)

(* C22: when the remote toggle of toggleDailyWord fails, the student's *)
(* local dailyWordIds after the rollback equal their value before the *)
(* optimistic update.  Stated for a failure of the only toggle in flight: *)
(* the step removes it and leaves the remote quests alone. *)
C22_RollbackRestores ==
  [][(Len(toggles) = 1 /\ toggles' = <<>> /\ quests' = quests)
       => students'[toggles[1].student] = toggles[1].before]_vars

(* C23: a daily quest refresh response is applied only while the student *)
(* session that issued it is still current, so the displayed dailyWordIds *)
(* always belong to the current student (or are the empty list set by a *)
(* reset).  dailyWordIds.student is the student whose quest was read. *)
C23_DailyWordsOfCurrentStudent ==
  dailyWordIds.student \in {NoStudent, currentStudentId}

(* C25: when a session finishes with a non-empty result list for an *)
(* identified student, one practice record per result entry (student, *)
(* word, activity type, correct) is in the practice ledger once the *)
(* saving started by the finish has ended; a closed session adds none. *)
C25_PracticeRecordsAppended ==
  saves = <<>> =>
    \A i \in DOMAIN sessions :
      LET s == sessions[i]
      IN (s.finished /\ s.student # NoStudent) =>
           \A k \in DOMAIN s.wordResults :
             \E j \in DOMAIN ledger :
               /\ ledger[j].student = s.student
               /\ ledger[j].wordId = s.wordResults[k].wordId
               /\ ledger[j].correct = s.wordResults[k].correct
               /\ ledger[j].activityType = s.activityType

(* ------------------------------------------------------------------ *)
(* Claims about the repository and gateway functions *)

(* C24: on a table that does not change, getAllWords terminates (every *)
(* round of its loop starts at an offset inside the table and the offset *)
(* grows by a page) and returns every stored word once, in ascending *)
(* word order, for every row count. *)
C24_AllWordsOnce ==
  libInput.fn = "getAllWords" =>
    /\ fetchPc = "loop" => (pageFrom <= wordCount /\ pageFrom % WORDS_PAGE_SIZE = 0)
    /\ fetchPc = "returned" => \A k \in 1..Max(wordCount, Len(fetched)) :
                                 k \in DOMAIN fetched /\ fetched[k] = k

(* An exact multiple of the page size has been read: two full pages and *)
(* an empty one. *)
C24_Witness ==
  /\ libInput.fn = "getAllWords"
  /\ fetchPc = "returned"
  /\ wordCount = 2 * WORDS_PAGE_SIZE
  /\ pageFrom = 3 * WORDS_PAGE_SIZE

(* C26: savePracticeRecords returns without a backend call on an empty *)
(* list; on n >= 1 results it appends n rows, one per element in order, *)
(* or throws on a backend error and appends none; the rows the ledger *)
(* held stay as they were. *)
C26_SaveAppends ==
  [][(libInput.fn = "savePracticeRecords" /\ libOutput = <<>> /\ libOutput' # <<>>)
       => LET rs == libInput.wordResults
              n == Len(rs)
          IN /\ Len(ledger') >= Len(ledger)
             /\ \A j \in DOMAIN ledger : ledger'[j] = ledger[j]
             /\ n = 0 => (libOutput'.outcome = "returned" /\ ledger' = ledger)
             /\ libOutput'.outcome = "thrown" => ledger' = ledger
             /\ libOutput'.outcome = "returned" =>
                  /\ Len(ledger') = Len(ledger) + n
                  /\ \A k \in 1..n :
                       LET row == ledger'[Len(ledger) + k]
                       IN /\ row.student = libInput.studentId
                          /\ row.wordId = rs[k].wordId
                          /\ row.correct = rs[k].correct
                          /\ row.activityType = libInput.activityType
                          /\ row.practice_date = TargetDate]_vars

(* Two results have been saved behind a record the ledger held. *)
C26_Witness ==
  /\ libInput.fn = "savePracticeRecords"
  /\ libOutput # <<>>
  /\ libOutput.outcome = "returned"
  /\ Len(libInput.wordResults) = 2
  /\ Len(ledger) = 3
  /\ ledger[1] = OldRecord

(* C27: getStudentDailyQuestDates(student, limit) returns the min(limit, D) *)
(* most recent distinct dates of the student, descending, where D is the *)
(* number of distinct dates, however many words each date carries. *)
C27_MostRecentDates ==
  (libInput.fn = "getStudentDailyQuestDates" /\ fetchPc = "returned") =>
    LET D == Len(libInput.counts)
        n == Min(libInput.limit, D)
    IN libOutput.value = [k \in 1..n |-> D - k + 1]

(* The same while no date among the most recent `limit` carries so many *)
(* rows that the rows read end before `limit` dates are seen. *)
DatesWhenRowsSuffice ==
  (libInput.fn = "getStudentDailyQuestDates" /\ fetchPc = "returned"
     /\ \A i \in DOMAIN libInput.counts : libInput.counts[i] <= 5) =>
    LET D == Len(libInput.counts)
        n == Min(libInput.limit, D)
    IN libOutput.value = [k \in 1..n |-> D - k + 1]

(* C28: each gateway function throws, and returns no value, whenever the *)
(* credentials are missing, the input is empty, the response is empty or *)
(* not JSON, or the parsed result list is empty. *)
C28_GatewayThrows ==
  (libInput.fn \in GatewayFns /\ libOutput # <<>>
     /\ (\/ ~libInput.apiKey
         \/ libInput.inputEmpty
         \/ (fetched # <<>> /\ fetched[1] \in {"empty", "not json", "empty list"})))
    => libOutput.outcome = "thrown"

(* What of C28 extractVocabularyFromFile does. *)
ExtractThrows ==
  (libInput.fn = "extractVocabularyFromFile" /\ libOutput # <<>>
     /\ (\/ ~libInput.apiKey
         \/ libInput.inputEmpty
         \/ (fetched # <<>> /\ fetched[1] \in {"empty", "not json", "empty list"})))
    => libOutput.outcome = "thrown"

(* C29: getStudent and getStudentProgress return null exactly when no *)
(* matching row exists and the backend said so, and throw for every other *)
(* backend error. *)
C29_NotFoundIsNull ==
  (libInput.fn \in {"getStudent", "getStudentProgress"} /\ libOutput # <<>>) =>
    LET resp == fetched[1]
    IN /\ (libOutput.outcome = "returned" /\ libOutput.value = Null)
            <=> (libInput.rows = {} /\ resp.error \notin OtherErrors)
       /\ libOutput.outcome = "thrown" <=> resp.error \in OtherErrors
       /\ (libOutput.outcome = "returned" /\ libOutput.value # Null)
            => libOutput.value \in libInput.rows

(* A lookup of a missing row has returned null, none has thrown for it. *)
C29_Witness ==
  /\ libInput.fn = "getStudentProgress"
  /\ libInput.rows = {}
  /\ libOutput # <<>>
  /\ libOutput.outcome = "returned"
  /\ libOutput.value = Null

(* ------------------------------------------------------------------ *)
(* Claim about the letters of the grid variant *)

(* A step in which spawnLetters has set the letters: the letters change *)
(* and it is neither a hit of the correct letter (which queues its *)
(* collection) nor a hit of a wrong one (which is counted). *)
Spawned ==
  /\ variant = "grid"
  /\ activeLetters' # activeLetters
  /\ pendingCollect' = <<>>
  /\ nRejected' = nRejected

(* C30: after every spawn the letters are one correct letter, whose *)
(* character is the next expected letter, and DISTRACTOR_COUNT = 4 others *)
(* whose characters differ from it; the five lie on pairwise distinct *)
(* cells of the 15x15 grid, none on a cell of the snake at spawn time. *)
C30_SpawnedLetters ==
  [][Spawned =>
       LET ls == activeLetters'
           expected == toUpperCase(queue'[1].word)[Len(collectedLetters') + 1]
       IN /\ Len(ls) = 1 + 4
          /\ Cardinality({i \in DOMAIN ls : ls[i].isCorrect}) = 1
          /\ \A i \in DOMAIN ls : ls[i].isCorrect <=> ls[i].char = expected
          /\ \A i, j \in DOMAIN ls :
               i # j => (ls[i].x # ls[j].x \/ ls[i].y # ls[j].y)
          /\ \A i \in DOMAIN ls : ls[i].x \in 0..14 /\ ls[i].y \in 0..14
          /\ \A i \in DOMAIN ls, k \in DOMAIN snake' :
               snake'[k].x # ls[i].x \/ snake'[k].y # ls[i].y]_vars

(* Letters spawned in the middle of a word, around a snake that has grown. *)
C30_Witness ==
  /\ variant = "grid"
  /\ modal = "shown"
  /\ gameState = "playing"
  /\ collectedLetters # <<>>
  /\ Len(snake) > 1
  /\ pendingCollect = <<>>
  /\ Len(activeLetters) = 5

(* ------------------------------------------------------------------ *)
(* Claims about the grid and the tile variants *)

(* The grid modal is shown and every queued state update has been applied. *)
GridSettled == variant = "grid" /\ Live /\ pendingCollect = <<>>

(* C31: every snake cell lies inside the 15x15 grid, the snake is as long *)
(* as 1 + the letters collected in the attempt, its length grows by one *)
(* on a correct collection, and a move that hits no letter or a wrong *)
(* letter leaves the length as it was. *)
C31_SnakeLength ==
  /\ [](variant = "grid" =>
          /\ \A k \in DOMAIN snake : snake[k].x \in 0..14 /\ snake[k].y \in 0..14
          /\ GridSettled => Len(snake) = 1 + Len(collectedLetters))
  /\ [][(variant = "grid" /\ snake' # snake) =>
          \/ Len(snake') = Len(snake) + 1 /\ pendingCollect' # <<>>
          \/ Len(snake') = Len(snake) /\ activeLetters' = activeLetters
          \/ snake' = INITIAL_SNAKE /\ collectedLetters' = <<>>]_vars
  /\ [][(variant = "grid" /\ nRejected' # nRejected) => snake' = snake]_vars

(* A snake that has grown has left the grid over the right edge and is *)
(* back on the left one. *)
C31_Witness ==
  /\ GridSettled
  /\ Len(snake) = 2
  /\ snake[1].x = 0
  /\ snake[2].x = 14

(* How often c occurs in s. *)
Occurrences(s, c) == Cardinality({ i \in DOMAIN s : s[i] = c })

(* The letters placed correctly in the attempt. *)
PlacedCorrectly == Cardinality({ i \in DOMAIN placedLetters : placedLetters[i].correct })

(* C32: in every state of an attempt of the tile variant the remaining *)
(* tiles are, as a multiset, the letters of the word not yet correctly *)
(* placed: tiles + correctly placed letters = word length, and a tile *)
(* with the expected letter is there until the word is complete. *)
C32_TilesAreTheRest ==
  (variant = "tile" /\ Live /\ HasCurrentWord) =>
    LET done == PlacedCorrectly
        rest == SubSeq(targetLetters, done + 1, Len(targetLetters))
    IN /\ \A c \in Range(tiles) \cup Range(rest) :
            Occurrences(tiles, c) = Occurrences(rest, c)
       /\ Len(tiles) + done = Len(targetLetters)
       /\ done < Len(targetLetters) =>
            \E i \in DOMAIN tiles : tiles[i] = targetLetters[done + 1]

(* A wrong tile lies behind a correct one and two tiles are left. *)
C32_Witness ==
  /\ variant = "tile" /\ Live /\ HasCurrentWord
  /\ Len(placedLetters) = 2
  /\ placedLetters[1].correct
  /\ ~placedLetters[2].correct
  /\ Len(tiles) = 2

(* A wrong tile is on show: the last tile placed is not the expected one. *)
WrongTileShown ==
  /\ variant = "tile" /\ Live
  /\ placedLetters # <<>>
  /\ ~placedLetters[Len(placedLetters)].correct

(* C33: a wrong tile costs one deduction and sets the mistake flag; while *)
(* it is shown every tap is ignored and the only change is the delayed *)
(* advance, which moves the word to the back of the queue, records one *)
(* failed result and starts a fresh attempt, so that it cannot fire again *)
(* for that tile or for the next word; and the advance does come unless *)
(* the modal is closed. *)
C33_WrongTileAdvancesOnce ==
  /\ [][(variant = "tile" /\ Live /\ ~WrongTileShown /\ WrongTileShown') =>
          /\ score' = (IF score >= 10 THEN score - 10 ELSE 0)
          /\ hadMistakeOnCurrentWord'
          /\ queue' = queue /\ advanceCounter' = advanceCounter]_vars
  /\ [][WrongTileShown =>
          \/ /\ advanceCounter' = advanceCounter + 1
             /\ queue' = Append(Tail(queue), queue[1])
             /\ Len(wordResults') = Len(wordResults) + 1
             /\ wordResults'[Len(wordResults')].wordId = queue[1].id
             /\ ~wordResults'[Len(wordResults')].correct
             /\ score' = score
             /\ placedLetters' = <<>>
             /\ finishCalls' = finishCalls
          \/ UNCHANGED <<placedLetters, tiles, score, queue, advanceCounter,
                         wordResults, hadMistakeOnCurrentWord, gameState,
                         finishCalls>>]_vars
  /\ (WrongTileShown /\ advanceCounter < MaxAdvances) ~> ~WrongTileShown

(* The delayed advance has put the failed word behind another one. *)
C33_Witness ==
  /\ variant = "tile" /\ Live
  /\ advanceCounter = 1
  /\ Len(queue) = 2
  /\ wordResults # <<>>
  /\ ~wordResults[1].correct
  /\ queue[2].id = wordResults[1].wordId
  /\ placedLetters = <<>>

(* ------------------------------------------------------------------ *)
(* Further claims about the repository calls *)

(* The quests of the student for the date in a table, and all others. *)
OfTarget(rows) ==
  { r \in rows : r.student_id = TargetStudent /\ r.quest_date = TargetDate }
NotOfTarget(rows) == rows \ OfTarget(rows)

(* C34: when assignWordsToDailyQuest has thrown, the assignments of the *)
(* student for the date are those from before the call or none at all, *)
(* never old and new ones mixed; the assignments of other students and *)
(* of other dates are as before in every outcome.  Stated for calls no *)
(* other call overlaps. *)
C34_AssignThrowsOldOrEmpty ==
  \A i \in DOMAIN log :
    (log[i].op = "assign" /\ Ended(log[i]) /\ Alone(log, clock, i)) =>
      /\ NotOfTarget(log[i].after.quests) = NotOfTarget(log[i].before.quests)
      /\ log[i].outcome = "thrown" =>
           OfTarget(log[i].after.quests) \in {OfTarget(log[i].before.quests), {}}

(* An assignment has thrown behind its delete and left the student with *)
(* no word for the date. *)
C34_Witness ==
  \E i \in DOMAIN log :
    /\ log[i].op = "assign" /\ log[i].outcome = "thrown" /\ Alone(log, clock, i)
    /\ OfTarget(log[i].before.quests) # {}
    /\ OfTarget(log[i].after.quests) = {}

(* C35: when a Quick Add with 'add to daily quest' has pinned its word and *)
(* every call the handler started has ended, the word is in the student's  *)
(* daily quest of today in the table and in the local dailyWordIds.        *)
C35_QuickAddPins ==
  (inFlight = <<>> /\ toggles = <<>>) =>
    \A i \in DOMAIN log :
      log[i].pinned =>
        /\ Includes(getDailyQuestWordIds(quests, log[i].student), log[i].word)
        /\ Includes(students[log[i].student], log[i].word)

(* C36: after any name submissions, overlapping ones included, the table  *)
(* of students holds at most one student per name, case ignored.          *)
C36_OneStudentPerName ==
  \A r1, r2 \in studentRows :
    toLowerCase(r1.name) = toLowerCase(r2.name) => r1.id = r2.id

(* A student is created only by a submission whose listing had no student *)
(* of that name, and a found student is the one taken.                    *)
ReusesExisting ==
  [][\A c \in Clients :
       /\ (inFlight[c].pc = "listing" /\ inFlight'[c].pc = "adding")
            => NamedLike(studentRows, inFlight[c].name) = {}
       /\ (inFlight[c].pc = "listing" /\ inFlight'[c].pc = "entered"
              /\ inFlight'[c].student # 0)
            => /\ studentRows' = studentRows
               /\ \E r \in NamedLike(studentRows, inFlight[c].name) :
                    r.id = inFlight'[c].student]_vars

(* The keys of one character a keyboard can send. *)
OneCharKeys == { <<ch>> : ch \in Range(Lowers) \cup Range(Uppers) \cup {"-", "'", " ", "1"} }

(* Some key is judged correct for the open slot. *)
CorrectKeyExists ==
  \E eKey \in OneCharKeys :
    handleKeyDown(TypedState, TypedState, eKey).nAccepted > nAccepted

SlotOpen ==
  /\ variant = "typed" /\ Live /\ HasCurrentWord /\ gameState = "typing"
  /\ Len(typedLetters) < Len(targetLetters)

(* C37: whenever a slot of the current word is open some input is judged  *)
(* correct for it, and a player who keeps giving correct inputs empties   *)
(* the queue and has onFinish invoked.                                    *)
C37_CleanAttemptFinishes ==
  /\ [](SlotOpen => CorrectKeyExists)
  /\ <>(queue = <<>> /\ finishCalls # <<>>)

(* The same player finishes every list of words made of letters only. *)
LetterWordsFinish ==
  (\A i \in DOMAIN wordEntries :
     \A k \in DOMAIN wordEntries[i].word : IsUpperAZ(ToUpperChar(wordEntries[i].word[k])))
    => <>(queue = <<>> /\ finishCalls # <<>>)

(* What the claim has a transcript normalise to: a single letter, else the *)
(* entry of the pronunciation table, else the first character when it is a *)
(* letter.                                                                 *)
NormalisesTo(transcript) ==
  LET t == Normalised(transcript)
  IN IF t = <<>> THEN Null
     ELSE IF Len(t) = 1 /\ IsLowerAZ(t[1]) THEN ToUpperChar(t[1])
     ELSE IF PronouncedOwn(RemoveSpaces(t)) # Null THEN PronouncedOwn(RemoveSpaces(t))
     ELSE IF PronouncedOwn(t) # Null THEN PronouncedOwn(t)
     ELSE IF IsLowerAZ(t[1]) THEN ToUpperChar(t[1])
     ELSE Null

ClaimedCandidate(alternatives, expected) ==
  LET valid == { i \in DOMAIN alternatives : NormalisesTo(alternatives[i]) # Null }
  IN IF \E i \in valid : NormalisesTo(alternatives[i]) = expected THEN expected
     ELSE IF valid = {} THEN Null
     ELSE NormalisesTo(alternatives[CHOOSE i \in valid : \A j \in valid : i <= j])

(* C38: for a final result the candidate is the expected letter if an      *)
(* alternative normalises to it, else the first alternative that           *)
(* normalises to a letter, else there is none.                             *)
C38_VoiceCandidate ==
  (libOutput # <<>> /\ libInput.isFinal) =>
    libOutput.value = ClaimedCandidate(libInput.alternatives, libInput.expected)

(* With no alternative of an inherited key the candidate is as claimed. *)
CandidateOfOwnKeys ==
  (/\ libOutput # <<>>
   /\ libInput.isFinal
   /\ \A i \in DOMAIN libInput.alternatives :
        RemoveSpaces(Normalised(libInput.alternatives[i])) \notin InheritedKeys) =>
    libOutput.value = ClaimedCandidate(libInput.alternatives, libInput.expected)

CorrectPops ==
  { i \in DOMAIN pops : pops[i].text = questions[pops[i].index + 1].answer }

(* C39: each question is answered at most once, the score is 100 for each *)
(* correctly answered question, and onFinish is invoked at most once,     *)
(* with that score, after the feedback of the last question is dismissed, *)
(* and never for an empty list of questions.                              *)
C39_QuizScore ==
  /\ \A i, j \in DOMAIN pops : pops[i].index = pops[j].index => i = j
  /\ score = 100 * Cardinality(CorrectPops)
  /\ Len(finishCalls) <= 1
  /\ finishCalls # <<>> =>
       /\ finishCalls[1].score = 100 * Cardinality(CorrectPops)
       /\ questions # <<>>
       /\ feedback = <<>>
       /\ Len(pops) = Len(questions)
       /\ pops[Len(pops)].index = Len(questions) - 1

C39_Witness ==
  /\ Len(questions) = 2
  /\ finishCalls # <<>>
  /\ finishCalls[1].score = 100
  /\ Cardinality(CorrectPops) = 1

====
